---- MODULE Spec2Model ----
(***************************************************************************)
(* A model of the redirector: the matcher, the path rewriter, the          *)
(* parameter composer, the location assembler, the request handler with    *)
(* its in-memory cache, the cache cleanup loop and the config reloader.    *)
(*                                                                         *)
(* Strings that the code takes apart (request paths, request hosts, the    *)
(* path of a `to` directive) are sequences of characters.  A compiled      *)
(* regular expression is a record describing a pattern of the shape        *)
(*   ^ lit            (cap = "none", end = FALSE)                          *)
(*   ^ lit $          (cap = "none", end = TRUE)                           *)
(*   ^ lit (x|y) $    (cap = "alt",  end = TRUE)                           *)
(*   ^ lit (.+)       (cap = "rest", end = FALSE)                          *)
(* and MatchString, LiteralPrefix and the submatch are computed from it.   *)
(***************************************************************************)
EXTENDS Integers, Sequences, FiniteSets, TLC

\* ------------------------------------------------------------------ bounds

\* the clock runs from 0 to MaxTime
MaxTime == 2
\* requests accepted in one behaviour
MaxRequests == 2

\* ------------------------------------------------------- program constants

defaultStatusCode == 301
defaultStatusOnMiss == 404
StatusNotFound == 404
StatusTemporaryRedirect == 307
StatusInternalServerError == 500

ParamsStrategyCombine == "combine"
ParamsStrategyReplace == "replace"
ParamsStrategyUnset == ""
defaultParameterStrategy == ParamsStrategyCombine

\* ------------------------------------------------------------ sequences

IsPrefix(s, t) == Len(s) <= Len(t) /\ SubSeq(t, 1, Len(s)) = s

RECURSIVE IndexOf(_, _, _)
\* the first position >= i of character c in s, or 0
IndexOf(s, c, i) ==
  IF i > Len(s) THEN 0
  ELSE IF s[i] = c THEN i
  ELSE IndexOf(s, c, i + 1)

\* ---------------------------------------------------- regular expressions

NilRe == [nil |-> TRUE, lit |-> <<>>, cap |-> "none", alt |-> {}, end |-> FALSE]

Re(lit, cap, alt, end) == [nil |-> FALSE, lit |-> lit, cap |-> cap, alt |-> alt, end |-> end]

\* regexp.MatchString for a ^-anchored pattern
MatchString(re, path) ==
  /\ IsPrefix(re.lit, path)
  /\ CASE re.cap = "none" -> (re.end => Len(path) = Len(re.lit))
       [] re.cap = "alt"  -> /\ Len(path) > Len(re.lit)
                             /\ path[Len(re.lit) + 1] \in re.alt
                             /\ (re.end => Len(path) = Len(re.lit) + 1)
       [] re.cap = "rest" -> Len(path) > Len(re.lit)

\* a pattern is executed by the one-pass matcher only when it is anchored at
\* both ends; only then does the literal prefix look past the leading ^
OnePass(re) == re.end

\* regexp.LiteralPrefix
LiteralPrefix(re) == IF OnePass(re) THEN re.lit ELSE <<>>

\* the text of capture group 1 of the match of re in path
Submatch1(re, path) ==
  CASE re.cap = "none" -> <<>>
    [] re.cap = "alt"  -> <<path[Len(re.lit) + 1]>>
    [] re.cap = "rest" -> SubSeq(path, Len(re.lit) + 1, Len(path))

\* ------------------------------------------------------------------ URLs

\* characters that are hexadecimal digits
HexDigits == {"a", "b", "c"}

\* a location as a string: "" is EmptyLocation
EmptyLocation == [scheme |-> "", host |-> "", path |-> <<>>, query |-> <<>>]

\* every % of s starts a valid escape %xy
EscapesOk(s) ==
  \A i \in 1..Len(s) :
    s[i] = "%" => /\ i + 2 <= Len(s)
                  /\ s[i + 1] \in HexDigits
                  /\ s[i + 2] \in HexDigits

RECURSIVE Unescape(_)
\* the path with every escape %xy replaced by the one character it encodes
Unescape(s) ==
  IF s = <<>> THEN <<>>
  ELSE IF Head(s) = "%"
    THEN <<"%" \o s[2] \o s[3]>> \o Unescape(SubSeq(s, 4, Len(s)))
    ELSE <<Head(s)>> \o Unescape(Tail(s))

\* url.Parse succeeds on the URL u given as scheme://host path ?query
UrlParseOk(u) == u.scheme # "" /\ EscapesOk(u.path)

\* ------------------------------------------------------------ parameters

\* the keys of url.Values in sorted order
KeyOrder == <<"k1", "k2">>

NoValues == <<>>

RECURSIVE EncodeFrom(_, _)
EncodeFrom(v, i) ==
  IF i > Len(KeyOrder) THEN <<>>
  ELSE (IF KeyOrder[i] \in DOMAIN v
          THEN [j \in 1..Len(v[KeyOrder[i]]) |-> <<KeyOrder[i], v[KeyOrder[i]][j]>>]
          ELSE <<>>) \o EncodeFrom(v, i + 1)

\* url.Values.Encode: key=value pairs sorted by key
Encode(v) == EncodeFrom(v, 1)

\* combine with the request's value kept for a key present in both
combine_RequestWins(c, n) ==
  [params |-> [k \in (DOMAIN c) \cup (DOMAIN n) |-> IF k \in DOMAIN c THEN c[k] ELSE n[k]],
   err |-> "nil"]

\* combine combines c and n; n overwrites conflicting parameters in c
combine(c, n) ==
  [params |-> [k \in (DOMAIN c) \cup (DOMAIN n) |-> IF k \in DOMAIN n THEN n[k] ELSE c[k]],
   err |-> "nil"]

\* replace discards the request's parameters and returns only those of n
replace(n) ==
  [params |-> [k \in DOMAIN n |-> n[k]], err |-> "nil"]

\* buildLocationParams with replace keeping the request's parameters
buildLocationParams_ReplaceKeepsRequest(strategy, c, n) ==
  CASE strategy = ParamsStrategyCombine -> combine(c, n)
    [] strategy = ParamsStrategyReplace -> combine(c, n)
    [] strategy = ParamsStrategyUnset   -> [params |-> NoValues, err |-> "nil"]
    [] OTHER -> [params |-> NoValues, err |-> "UnknownParameterStrategyError"]

\* buildLocationParams with an unknown strategy falling back to the rule's parameters
buildLocationParams_UnknownAsReplace(strategy, c, n) ==
  CASE strategy = ParamsStrategyCombine -> combine(c, n)
    [] strategy = ParamsStrategyReplace -> replace(n)
    [] strategy = ParamsStrategyUnset   -> [params |-> NoValues, err |-> "nil"]
    [] OTHER -> [params |-> replace(n).params, err |-> "UnknownParameterStrategyError"]

buildLocationParams(strategy, c, n) ==
  CASE strategy = ParamsStrategyCombine -> combine(c, n)
    [] strategy = ParamsStrategyReplace -> replace(n)
    [] strategy = ParamsStrategyUnset   -> [params |-> NoValues, err |-> "nil"]
    [] OTHER -> [params |-> NoValues, err |-> "UnknownParameterStrategyError"]

\* ------------------------------------------------------------------ rules

NilTo == [proto |-> FALSE, scheme |-> "", host |-> "", path |-> <<>>, query |-> <<>>]

\* Rule{}: the zero value
NilRule ==
  [From |-> <<>>, To |-> NilTo, Code |-> 0,
   Parameters |-> [Strategy |-> "", Values |-> NoValues],
   CacheControlMaxAge |-> 0, compiled |-> NilRe]

\* ---------------------------------------------------------------- matcher

RECURSIVE findMatchFrom(_, _, _)
\* the loop of findMatch over the host's bucket, from position i
findMatchFrom(bucket, i, path) ==
  IF i > Len(bucket) THEN NilRule
  ELSE LET rule == bucket[i] IN
    IF rule.compiled.nil THEN findMatchFrom(bucket, i + 1, path)
    ELSE IF LiteralPrefix(rule.compiled) = path THEN rule
    ELSE IF MatchString(rule.compiled, path) THEN rule
    ELSE findMatchFrom(bucket, i + 1, path)

\* findMatch reporting a host without bucket as a path without rule
findMatch_UnknownHostIsPathMiss(hostname, path, rules) ==
  IF hostname \notin DOMAIN rules
    THEN [rule |-> NilRule, err |-> "NoRuleForPathError"]
    ELSE LET winner == findMatchFrom(rules[hostname], 1, path) IN
      IF winner.compiled.nil
        THEN [rule |-> winner, err |-> "NoRuleForPathError"]
        ELSE [rule |-> winner, err |-> "nil"]

findMatch(hostname, path, rules) ==
  IF hostname \notin DOMAIN rules
    THEN [rule |-> NilRule, err |-> "NoRuleForHostError"]
    ELSE LET winner == findMatchFrom(rules[hostname], 1, path) IN
      IF winner.compiled.nil
        THEN [rule |-> winner, err |-> "NoRuleForPathError"]
        ELSE [rule |-> winner, err |-> "nil"]

\* --------------------------------------------------------------- rewriter

RECURSIVE ExpandString(_, _)
\* the template with every $1 replaced by the text of capture group 1
ExpandString(template, sub) ==
  IF template = <<>> THEN <<>>
  ELSE (IF Head(template) = "$1" THEN sub ELSE <<Head(template)>>)
         \o ExpandString(Tail(template), sub)

\* rewritePath: err is "nil", "StringNotExpandableError", or "panic" when
\* url.Parse fails on the expanded string and its nil result is dereferenced
rewritePath(path, from, to) ==
  IF ~MatchString(from, path)
    THEN [path |-> path, err |-> "StringNotExpandableError"]
    ELSE LET b == [to EXCEPT !.path = ExpandString(to.path, Submatch1(from, path))] IN
      IF ~UrlParseOk(b)
        THEN [path |-> <<>>, err |-> "panic"]
        ELSE [path |-> Unescape(b.path), err |-> "nil"]

\* --------------------------------------------------------------- assembler

\* buildLocationHeader with the query of the to directive put before the parameters
buildLocationHeader_KeepsToQuery(to, path, params) ==
  IF ~UrlParseOk(to)
    THEN [location |-> EmptyLocation, err |-> "parse"]
    ELSE [location |-> [scheme |-> to.scheme, host |-> to.host, path |-> path,
                        query |-> to.query \o Encode(params)],
          err |-> "nil"]

buildLocationHeader(to, path, params) ==
  IF ~UrlParseOk(to)
    THEN [location |-> EmptyLocation, err |-> "parse"]
    ELSE [location |-> [scheme |-> to.scheme, host |-> to.host, path |-> path,
                        query |-> Encode(params)],
          err |-> "nil"]

\* ----------------------------------------------------------- Cache-Control

NoCacheControl == [set |-> FALSE, maxAge |-> 0]

\* setCacheControlMaxAge with a server max-age of 0 taken as disabled
setCacheControlMaxAge_ZeroDisables(d, r) ==
  CASE r = -1 -> NoCacheControl
    [] r = 0  -> IF d > 0 THEN [set |-> TRUE, maxAge |-> d] ELSE NoCacheControl
    [] OTHER  -> [set |-> TRUE, maxAge |-> r]

\* the Cache-Control header after setCacheControlMaxAge(d, r, w)
setCacheControlMaxAge(d, r) ==
  CASE r = -1 -> NoCacheControl
    [] r = 0  -> IF d > -1 THEN [set |-> TRUE, maxAge |-> d] ELSE NoCacheControl
    [] OTHER  -> [set |-> TRUE, maxAge |-> r]

\* --------------------------------------------------------- config loading

\* A from directive is a sequence of characters.  "h1", "h2", "http", "ssh",
\* "a", "b", "c" each stand for a run of ASCII letters and digits that starts
\* with a letter, "80" for a run of digits, "U+00E9" for a letter outside ASCII.
AsciiAlnum == {"h1", "h2", "http", "https", "ssh", "a", "b", "c"}
AsciiDigits == {"80"}
NonAsciiLetters == {"U+00E9"}

\* unicode.IsLetter(char) || unicode.IsDigit(char)
IsLetterOrDigit(char) == char \in AsciiAlnum \cup AsciiDigits \cup NonAsciiLetters

validSpecialChars == {"_", "-", "."}

\* characters a hostname may contain (letters, digits, "_", "-", ".")
ValidHostChars == AsciiAlnum \cup AsciiDigits \cup NonAsciiLetters \cup validSpecialChars

validHostname(hostname) ==
  \A i \in 1..Len(hostname) :
     IsLetterOrDigit(hostname[i]) \/ hostname[i] \in validSpecialChars

\* the host left as it is, port included
StripPort_KeepsPort(host) == host

\* strings.Split(host, ":")[0]
StripPort(host) ==
  IF IndexOf(host, ":", 1) = 0 THEN host
  ELSE SubSeq(host, 1, IndexOf(host, ":", 1) - 1)

RECURSIVE ContainsAt(_, _, _)
\* strings.Contains(s, sub), looking from position i on
ContainsAt(s, sub, i) ==
  IF i + Len(sub) - 1 > Len(s) THEN FALSE
  ELSE IF SubSeq(s, i, i + Len(sub) - 1) = sub THEN TRUE
  ELSE ContainsAt(s, sub, i + 1)

\* strings.Contains that finds nothing
Contains_Never(s, sub) == FALSE

Contains(s, sub) == ContainsAt(s, sub, 1)

RECURSIVE LastIndexOf(_, _, _)
\* the last position <= i of character c in s, or 0
LastIndexOf(s, c, i) ==
  IF i = 0 THEN 0
  ELSE IF s[i] = c THEN i
  ELSE LastIndexOf(s, c, i - 1)

\* strings.Split(s, "/")[0]
FirstPart(s) ==
  IF IndexOf(s, "/", 1) = 0 THEN s ELSE SubSeq(s, 1, IndexOf(s, "/", 1) - 1)

\* "/" + strings.Join(strings.Split(s, "/")[1:], "/")
SlashRest(s) == SubSeq(s, IndexOf(s, "/", 1), Len(s))

\* the characters url.PathEscape leaves as they are ("/" is put back by fromAsURL)
PathEscapeKeeps ==
  AsciiAlnum \cup AsciiDigits \cup {"-", "_", ".", "~", "$", "&", "+", "=", ":", "@", "/"}

\* the characters that may follow the first letter of a URL scheme
SchemeChars == AsciiAlnum \cup AsciiDigits \cup {"+", "-", "."}

RECURSIVE SchemeEnd(_, _)
\* net/url getScheme: the position of the ":" that ends the scheme of s, 0 when s
\* has no scheme, -1 for "missing protocol scheme"
SchemeEnd(s, i) ==
  IF i > Len(s) THEN 0
  ELSE IF s[i] = ":" THEN (IF i = 1 THEN -1 ELSE i)
  ELSE IF i = 1 /\ s[i] \notin AsciiAlnum THEN 0
  ELSE IF s[i] \notin SchemeChars THEN 0
  ELSE SchemeEnd(s, i + 1)

NilURL == [nil |-> TRUE, Scheme |-> <<>>, Host |-> <<>>, Path |-> <<>>, Opaque |-> <<>>,
           err |-> "nil"]

\* net/url parseHost on the escaped authority: the port after the last ":" is
\* digits, an escaped ASCII character is an error, an escaped byte above 0x7f
\* is unescaped
ParseHostOk(authority) ==
  /\ LET i == LastIndexOf(authority, ":", Len(authority)) IN
       i # 0 => \A j \in (i + 1)..Len(authority) : authority[j] \in AsciiDigits
  /\ \A j \in 1..Len(authority) :
       authority[j] \in PathEscapeKeeps \cup NonAsciiLetters

\* url.Parse(strings.Replace(url.PathEscape(f), "%2F", "/", -1))
UrlParse(f) ==
  LET e == SchemeEnd(f, 1)
      scheme == IF e > 0 THEN SubSeq(f, 1, e - 1) ELSE <<>>
      rest == IF e > 0 THEN SubSeq(f, e + 1, Len(f)) ELSE f
  IN IF e = -1 THEN [NilURL EXCEPT !.err = "missing protocol scheme"]
     ELSE IF rest # <<>> /\ rest[1] # "/"
       THEN IF scheme # <<>>
              THEN [NilURL EXCEPT !.nil = FALSE, !.Scheme = scheme, !.Opaque = rest]
            ELSE IF IndexOf(FirstPart(rest), ":", 1) # 0
              THEN [NilURL EXCEPT !.err = "first path segment in URL cannot contain colon"]
            ELSE [NilURL EXCEPT !.nil = FALSE, !.Path = rest]
     ELSE IF /\ scheme # <<>> \/ ~(Len(rest) >= 3 /\ rest[3] = "/")
             /\ Len(rest) >= 2 /\ rest[2] = "/"
       THEN LET after == SubSeq(rest, 3, Len(rest))
                authority == FirstPart(after)
                path == IF IndexOf(after, "/", 1) = 0 THEN <<>> ELSE SlashRest(after)
            IN IF ~ParseHostOk(authority)
                 THEN [NilURL EXCEPT !.err = "invalid host"]
                 ELSE [NilURL EXCEPT !.nil = FALSE, !.Scheme = scheme,
                                     !.Host = authority, !.Path = path]
     ELSE [NilURL EXCEPT !.nil = FALSE, !.Scheme = scheme, !.Path = rest]

\* the element of a one-element set: Only({e(x) : x \in {v}}) is e(v) with v
\* evaluated once
Only(S) == CHOOSE x \in S : TRUE

\* fromAsURL after url.Parse returned parsed value p0
fromAsURLParsed(p0) ==
  LET reject(e) == [Scheme |-> <<>>, Host |-> <<>>, Path |-> <<>>, err |-> e]
  IN IF p0.err # "nil"
          /\ p0.err # "first path segment in URL cannot contain colon"
       THEN reject(p0.err)
     ELSE IF p0.nil THEN reject("InvalidURLError")
     ELSE
       LET sp == p0.Opaque
           parsed ==
             IF p0.Opaque = <<>> THEN p0
             ELSE [p0 EXCEPT
                     !.Host = IF IndexOf(sp, "/", 1) = 0
                                 \/ IndexOf(sp, "/", IndexOf(sp, "/", 1) + 1) = 0
                              THEN FirstPart(sp) ELSE p0.Host,
                     !.Path = IF IndexOf(sp, "/", 1) = 0 THEN <<"/">>
                              ELSE SlashRest(sp),
                     !.Opaque = <<>>]
           Scheme == IF parsed.Scheme # <<>> THEN parsed.Scheme ELSE <<"https">>
           Host == IF parsed.Host = <<>> THEN FirstPart(parsed.Path) ELSE parsed.Host
           Path == IF IndexOf(parsed.Path, "/", 1) # 0 THEN SlashRest(parsed.Path)
                   ELSE <<"/">>
       IN IF (Host \o Path)[1] = "/" THEN reject("InvalidHostnameError")
          ELSE IF ~validHostname(StripPort(Host)) THEN reject("InvalidHostnameError")
          ELSE [Scheme |-> Scheme, Host |-> StripPort(Host), Path |-> Path, err |-> "nil"]

\* fromAsURL converts a rule's from directive into a url.URL
fromAsURL(f0) ==
  Only({ fromAsURLParsed(p0) :
           p0 \in { UrlParse(f) :
                      f \in { IF Contains(x, <<":", "/", "/">>) THEN x
                              ELSE <<"https", ":", "/", "/">> \o x : x \in {f0} } } })

\* the characters with a meaning in a regular expression
Meta == {"(", ")", "|", "$", ".", "+", "*", "^"}

RECURSIVE FirstMeta(_, _)
\* the first position >= i of a character of Meta in s, or Len(s) + 1
FirstMeta(s, i) ==
  IF i > Len(s) THEN i
  ELSE IF s[i] \in Meta THEN i
  ELSE FirstMeta(s, i + 1)

\* regexp.Compile of a pattern that starts with "^"; the patterns of the model
\* that have none of the shapes below have an unclosed group
Compile(p) ==
  LET body == Tail(p)
      k == FirstMeta(body, 1)
      lit == SubSeq(body, 1, k - 1)
      rest == SubSeq(body, k, Len(body))
      ok(re) == [re |-> re, err |-> "nil"]
  IN CASE rest = <<>> -> ok(Re(lit, "none", {}, FALSE))
       [] rest = <<"$">> -> ok(Re(lit, "none", {}, TRUE))
       [] rest = <<".", "*">> /\ lit = <<>> -> ok(Re(lit, "none", {}, FALSE))
       [] rest = <<"(", ".", "+", ")">> -> ok(Re(lit, "rest", {}, FALSE))
       [] /\ Len(rest) = 6
          /\ <<rest[1], rest[3], rest[5], rest[6]>> = <<"(", "|", ")", "$">>
          /\ {rest[2], rest[4]} \cap Meta = {} ->
            ok(Re(lit, "alt", {rest[2], rest[4]}, TRUE))
       [] OTHER -> [re |-> NilRe, err |-> "missing closing )"]

\* the body of buildRules' loop for one rule, u being fromAsURL(rule.From):
\* the rule with its pattern compiled and the defaults applied, or nothing
buildRule(rule, u, c, s, a) ==
  LET exp == IF u.Path = <<>> THEN Compile(<<"^", ".", "*">>)
             ELSE IF u.Path[1] # "^" THEN Compile(<<"^">> \o u.Path)
             ELSE Compile(u.Path)
      built == [rule EXCEPT
                  !.compiled = exp.re,
                  !.Code = IF rule.Code = 0 THEN c ELSE rule.Code,
                  !.Parameters.Strategy =
                     IF rule.Parameters.Strategy = "" THEN s
                     ELSE rule.Parameters.Strategy,
                  !.CacheControlMaxAge =
                     IF rule.CacheControlMaxAge = 0 THEN a
                     ELSE rule.CacheControlMaxAge]
  IN IF u.err # "nil" THEN <<>>
     ELSE IF ~rule.To.proto THEN <<>>
     ELSE IF exp.err # "nil" THEN <<>>
     ELSE <<built>>

RECURSIVE buildRulesFrom(_, _, _, _, _)
buildRulesFrom(r, i, c, s, a) ==
  IF i > Len(r) THEN <<>>
  ELSE Only({ buildRule(r[i], u, c, s, a) : u \in {fromAsURL(r[i].From)} })
         \o buildRulesFrom(r, i + 1, c, s, a)

\* buildRules starting at the second rule
buildRules_SkipsFirst(r, c, s, a) == buildRulesFrom(r, 2, c, s, a)

\* buildRules keeps the valid rules, with defaults applied and patterns compiled
buildRules(r, c, s, a) == buildRulesFrom(r, 1, c, s, a)

\* the body of bucketRules' loop putting the rule at the front of its bucket
bucketRule_Prepends(bucketedRules, rule, u) ==
  IF u.err # "nil" THEN bucketedRules
  ELSE IF u.Host \notin DOMAIN bucketedRules
    THEN [h \in DOMAIN bucketedRules \cup {u.Host} |->
            IF h = u.Host THEN <<rule>> ELSE bucketedRules[h]]
    ELSE [bucketedRules EXCEPT ![u.Host] = <<rule>> \o @]

\* the body of bucketRules' loop for one rule, u being fromAsURL(rule.From)
bucketRule(bucketedRules, rule, u) ==
  IF u.err # "nil" THEN bucketedRules
  ELSE IF u.Host \notin DOMAIN bucketedRules
    THEN [h \in DOMAIN bucketedRules \cup {u.Host} |->
            IF h = u.Host THEN <<rule>> ELSE bucketedRules[h]]
    ELSE [bucketedRules EXCEPT ![u.Host] = Append(@, rule)]

RECURSIVE bucketRulesFrom(_, _, _)
bucketRulesFrom(r, i, bucketedRules) ==
  IF i > Len(r) THEN bucketedRules
  ELSE Only({ bucketRulesFrom(r, i + 1, b) :
                b \in {bucketRule(bucketedRules, r[i], fromAsURL(r[i].From))} })

\* bucketRules organizes rules into per-hostname buckets
bucketRules(r) == bucketRulesFrom(r, 1, <<>>)

\* loadConfig giving buildRules the built-in default strategy, not the file's
loadConfig_BuiltinStrategy(file) ==
  IF ~file.loads
    THEN [cfg |-> [RuleMap |-> <<>>], err |-> "error"]
    ELSE [cfg |-> [LocationOnMiss |-> file.LocationOnMiss,
                   StatusOnMiss |-> file.StatusOnMiss,
                   DefaultParameterStrategy |-> file.DefaultParameterStrategy,
                   CacheControlMaxAge |-> file.CacheControlMaxAge,
                   Cache |-> file.Cache,
                   RuleMap |-> Only({ bucketRules(rules) :
                                 rules \in {buildRules(file.Rules, defaultStatusCode,
                                    defaultParameterStrategy,
                                    file.CacheControlMaxAge)} })],
          err |-> "nil"]

\* loadConfig on a config file: nil and an error when the file does not load
loadConfig(file) ==
  IF ~file.loads
    THEN [cfg |-> [RuleMap |-> <<>>], err |-> "error"]
    ELSE [cfg |-> [LocationOnMiss |-> file.LocationOnMiss,
                   StatusOnMiss |-> file.StatusOnMiss,
                   DefaultParameterStrategy |-> file.DefaultParameterStrategy,
                   CacheControlMaxAge |-> file.CacheControlMaxAge,
                   Cache |-> file.Cache,
                   RuleMap |-> Only({ bucketRules(rules) :
                                 rules \in {buildRules(file.Rules, defaultStatusCode,
                                    file.DefaultParameterStrategy,
                                    file.CacheControlMaxAge)} })],
          err |-> "nil"]

\* ------------------------------------------------- the inputs of the model

\* request paths: /a, /ab, /b
Paths == {<<"/", "a">>, <<"/", "a", "b">>, <<"/", "b">>}

\* the Host header of a request: h1, h1:80, h2
RequestHosts == {<<"h1">>, <<"h1", ":", "80">>, <<"h2">>}

\* the requests sent: every path and /abc to h1, /ab to h1:80 and to h2
Requests ==
  {<<<<"h1">>, q>> : q \in Paths \cup {<<"/", "a", "b", "c">>}}
    \cup {<<<<"h1", ":", "80">>, <<"/", "a", "b">>>>, <<<<"h2">>, <<"/", "a", "b">>>>}

\* the query parameters of a request
RequestParams == {[k1 |-> <<"v0">>, k2 |-> <<"v0", "v9">>]}

\* ^/a
RePrefix == Re(<<"/", "a">>, "none", {}, FALSE)
\* ^/a$
ReExact == Re(<<"/", "a">>, "none", {}, TRUE)
\* ^/a(b|c)$
ReAlt == Re(<<"/", "a">>, "alt", {"b", "c"}, TRUE)
\* ^/a(.+)
ReRest == Re(<<"/", "a">>, "rest", {}, FALSE)

\* https://y.com/y
ToY == [proto |-> TRUE, scheme |-> "https", host |-> "y.com", path |-> <<"/", "y">>,
        query |-> <<>>]
\* https://z.com/z
ToZ == [proto |-> TRUE, scheme |-> "https", host |-> "z.com", path |-> <<"/", "z">>,
        query |-> <<>>]
\* https://x.com:8080/x/$1?q=1
ToX == [proto |-> TRUE, scheme |-> "https", host |-> "x.com:8080",
        path |-> <<"/", "x", "/", "$1">>, query |-> << <<"q", "1">> >>]
\* https://w.com/$1
ToW == [proto |-> TRUE, scheme |-> "https", host |-> "w.com", path |-> <<"/", "$1">>,
        query |-> <<>>]
\* https://e.com/%$1
ToEscape == [proto |-> TRUE, scheme |-> "https", host |-> "e.com",
             path |-> <<"/", "%", "$1">>, query |-> <<>>]
\* y.com/y
ToNoProto == [proto |-> FALSE, scheme |-> "", host |-> "", path |-> <<"y", ".", "/">>,
              query |-> <<>>]

\* https://fb.com/
Fallback == [scheme |-> "https", host |-> "fb.com", path |-> <<"/">>, query |-> <<>>]

\* the text of a pattern of the model, without the "^" that buildRules adds
Text(re) ==
  re.lit \o
  (CASE re.cap = "rest" -> <<"(", ".", "+", ")">>
     [] re.cap = "alt" ->
          LET x == CHOOSE e \in re.alt : TRUE
              y == CHOOSE e \in re.alt \ {x} : TRUE
          IN <<"(", x, "|", y, ")", "$">>
     [] OTHER -> IF re.end THEN <<"$">> ELSE <<>>)

\* a rule as declared: from is host followed by the text of the path pattern
RawRule(host, re, to, code, strategy, values, maxAge) ==
  [From |-> host \o Text(re), To |-> to, Code |-> code,
   Parameters |-> [Strategy |-> strategy, Values |-> values],
   CacheControlMaxAge |-> maxAge, compiled |-> NilRe]

RuleValues == [k1 |-> <<"v1">>]
RuleValues2 == [k1 |-> <<"v2", "v3">>]

CacheSettings == [TTL |-> 1, CleanupInterval |-> 1]

\* conflicting rules for h1 (/a matches both), no fallback location
File1 ==
  [loads |-> TRUE, LocationOnMiss |-> EmptyLocation, StatusOnMiss |-> 410,
   DefaultParameterStrategy |-> defaultParameterStrategy, CacheControlMaxAge |-> 7,
   Cache |-> CacheSettings,
   Rules |-> << RawRule(<<"h1">>, RePrefix, ToY, 0, "replace", RuleValues, 0),
                RawRule(<<"h1", ":", "80">>, ReExact, ToZ, 302, "combine", RuleValues, -1),
                RawRule(<<"h1">>, RePrefix, ToNoProto, 0, "", NoValues, 0) >>]

\* a fallback location, Cache-Control disabled, no default strategy
File2 ==
  [loads |-> TRUE, LocationOnMiss |-> Fallback, StatusOnMiss |-> defaultStatusOnMiss,
   DefaultParameterStrategy |-> "", CacheControlMaxAge |-> -1,
   Cache |-> CacheSettings,
   Rules |-> << RawRule(<<"h1">>, ReAlt, ToX, 0, "", RuleValues, 0),
                RawRule(<<"h1", "*">>, RePrefix, ToY, 0, "", NoValues, 0),
                RawRule(<<"h1">>, ReRest, ToEscape, 307, "combine", RuleValues2, 5),
                RawRule(<<"h1">>, ReExact, ToZ, 0, "replace", RuleValues, 0) >>]

\* rules for both hosts, server max-age 0
File3 ==
  [loads |-> TRUE, LocationOnMiss |-> Fallback, StatusOnMiss |-> defaultStatusOnMiss,
   DefaultParameterStrategy |-> defaultParameterStrategy, CacheControlMaxAge |-> 0,
   Cache |-> CacheSettings,
   Rules |-> << RawRule(<<"h1">>, ReExact, ToZ, 302, "idontexist", RuleValues, 0),
                RawRule(<<"h1">>, ReRest, ToW, 0, "", RuleValues2, 5),
                RawRule(<<"h2">>, ReRest, ToEscape, 0, "replace", NoValues, -1) >>]

\* a file that does not parse
FileBroken == [File1 EXCEPT !.loads = FALSE]

\* the second file with other cache settings; the watcher finds it, no start uses it
File4 == [File2 EXCEPT !.Cache = [TTL |-> 2, CleanupInterval |-> 2]]

StartupFiles == {File1, File2, File3}
ConfigFiles == StartupFiles \cup {FileBroken, File4}

\* the result of loadConfig on each file
Loaded == [file \in ConfigFiles |-> loadConfig(file)]

\* ------------------------------------------------------------------ state

VARIABLES
  ac,        \* the AppConfig shared by the handler and the reloader
  ttl,       \* InMemoryCache.ttl
  cache,     \* InMemoryCache.cache: host -> path -> InMemoryCacheItem
  now,       \* time.Now().Unix()
  hpc,       \* where the request handler is: "idle", "miss", "set"
  req,       \* the request being handled: [host, path, params]
  pending,   \* the CacheSetParameters of the handler's call of cache.Set
  resp,      \* the last response written by the handler
  origin,    \* history: for each cache entry, the response sent by the handler that set it
  epc,       \* where the cleanup loop is: "scan", "delete"
  etarget,   \* the (host, path) the cleanup loop found expired
  nreq,      \* requests accepted so far
  call,      \* the last call of a function on its own: [fn, in, out]
  cancelled, \* the root context is cancelled
  rpc,       \* where the reloader is: "select", "exited"
  esleep,    \* the seconds left of the cleanup loop's time.Sleep
  epass,     \* the cleanup loop's range over the cache: [start, old, done]
  lock,      \* InMemoryCache.lock: [w, r], the holder of Lock and the holders of RLock
  hs         \* the handler goroutines followed one by one: for each [pc, req, pending, sent]

\* the lock and the handler goroutines
conc == <<lock, hs>>

\* the state of the goroutines' life cycle
life == <<cancelled, rpc, esleep, epass, conc>>

vars == <<ac, ttl, cache, now, hpc, req, pending, resp, origin, epc, etarget, nreq,
          call, life>>

\* f with key k set to v
Put(f, k, v) == [x \in DOMAIN f \cup {k} |-> IF x = k THEN v ELSE f[x]]

\* f without key k
Remove(f, k) == [x \in DOMAIN f \ {k} |-> f[x]]

\* Host is the Host header as received, host the normalized one
NoRequest == [Host |-> <<>>, host |-> <<>>, path |-> <<>>, params |-> NoValues]

NoPending ==
  [host |-> <<>>, path |-> <<>>, location |-> EmptyLocation, code |-> 0,
   cacheControlMaxAge |-> 0]

\* what a response is made of, as recorded in origin
NoSummary ==
  [kind |-> "none", status |-> 0, hasLocation |-> FALSE, Location |-> EmptyLocation,
   cacheControl |-> NoCacheControl, rule |-> NilRule]

NoResponse ==
  [kind |-> "none", Host |-> <<>>, host |-> <<>>, path |-> <<>>, params |-> NoValues,
   status |-> 0,
   hasLocation |-> FALSE, Location |-> EmptyLocation, cacheStatus |-> "",
   cacheControl |-> NoCacheControl, rule |-> NilRule, matchErr |-> "nil",
   newParams |-> NoValues, paramsErr |-> "nil", src |-> NoSummary]

Summary(r) ==
  [kind |-> r.kind, status |-> r.status, hasLocation |-> r.hasLocation,
   Location |-> r.Location, cacheControl |-> r.cacheControl, rule |-> r.rule]

NoCall == [fn |-> "none", done |-> FALSE]

\* no range over the cache begun
NoPass == [start |-> {}, old |-> {}, done |-> {}]

\* sync.RWMutex, unlocked
NoLock == [w |-> "none", r |-> {}]

\* the goroutines net/http runs the handler in
Handlers == {"ha", "hb"}

NoHandlers ==
  [i \in Handlers |-> [pc |-> "idle", req |-> NoRequest, pending |-> NoPending,
                       sent |-> NoSummary]]

\* ------------------------------------------------------------------ cache

\* InMemoryCache.Get: the CacheResponse, or nil
Get(c, parameters) ==
  IF parameters.host \in DOMAIN c
    THEN IF parameters.path \in DOMAIN c[parameters.host]
      THEN LET r == c[parameters.host][parameters.path] IN
        [nil |-> FALSE, code |-> r.code, location |-> r.location,
         cacheMaxAge |-> r.cacheControlMaxAge]
      ELSE [nil |-> TRUE, code |-> 0, location |-> EmptyLocation, cacheMaxAge |-> 0]
    ELSE [nil |-> TRUE, code |-> 0, location |-> EmptyLocation, cacheMaxAge |-> 0]

\* InMemoryCache.Set storing no cacheControlMaxAge
Set_DropsMaxAge(c, parameters, t, unix) ==
  LET item == [path |-> parameters.path, location |-> parameters.location,
               code |-> parameters.code, ttl |-> t, createdAt |-> unix,
               cacheControlMaxAge |-> 0]
  IN IF parameters.host \in DOMAIN c
       THEN [c EXCEPT ![parameters.host] = Put(@, parameters.path, item)]
       ELSE Put(c, parameters.host, Put(<<>>, parameters.path, item))

\* InMemoryCache.Set: the cache after the call
Set(c, parameters, t, unix) ==
  LET item == [path |-> parameters.path, location |-> parameters.location,
               code |-> parameters.code, ttl |-> t, createdAt |-> unix,
               cacheControlMaxAge |-> parameters.cacheControlMaxAge]
  IN IF parameters.host \in DOMAIN c
       THEN [c EXCEPT ![parameters.host] = Put(@, parameters.path, item)]
       ELSE Put(c, parameters.host, Put(<<>>, parameters.path, item))

\* ---------------------------------------------------------------- handler

\* handleMatchError with the fallback location left out for a host without rules
handleMatchError_HostIgnoresFallback(err, host, path, fallback) ==
  LET r == CASE err = "NoRuleForHostError" ->
                  [s |-> StatusNotFound, l |-> EmptyLocation]
             [] err = "NoRuleForPathError" ->
                  IF fallback # EmptyLocation
                    THEN [s |-> StatusTemporaryRedirect, l |-> fallback]
                    ELSE [s |-> StatusNotFound, l |-> EmptyLocation]
             [] OTHER -> [s |-> StatusInternalServerError, l |-> EmptyLocation]
  IN [status |-> r.s, hasLocation |-> r.l # EmptyLocation, Location |-> r.l,
      set |-> [host |-> host, path |-> path, location |-> r.l, code |-> r.s,
               cacheControlMaxAge |-> 0]]

\* handleMatchError caching 404 whatever status it sent
handleMatchError_CachesNotFound(err, host, path, fallback) ==
  LET r == CASE err = "NoRuleForHostError" ->
                  IF fallback # EmptyLocation
                    THEN [s |-> StatusTemporaryRedirect, l |-> fallback]
                    ELSE [s |-> StatusNotFound, l |-> EmptyLocation]
             [] err = "NoRuleForPathError" ->
                  IF fallback # EmptyLocation
                    THEN [s |-> StatusTemporaryRedirect, l |-> fallback]
                    ELSE [s |-> StatusNotFound, l |-> EmptyLocation]
             [] OTHER -> [s |-> StatusInternalServerError, l |-> EmptyLocation]
  IN [status |-> r.s, hasLocation |-> r.l # EmptyLocation, Location |-> r.l,
      set |-> [host |-> host, path |-> path, location |-> r.l, code |-> StatusNotFound,
               cacheControlMaxAge |-> 0]]

\* handleMatchError: the response it writes and the parameters of its cache.Set
handleMatchError(err, host, path, fallback) ==
  LET r == CASE err = "NoRuleForHostError" ->
                  IF fallback # EmptyLocation
                    THEN [s |-> StatusTemporaryRedirect, l |-> fallback]
                    ELSE [s |-> StatusNotFound, l |-> EmptyLocation]
             [] err = "NoRuleForPathError" ->
                  IF fallback # EmptyLocation
                    THEN [s |-> StatusTemporaryRedirect, l |-> fallback]
                    ELSE [s |-> StatusNotFound, l |-> EmptyLocation]
             [] OTHER -> [s |-> StatusInternalServerError, l |-> EmptyLocation]
  IN [status |-> r.s, hasLocation |-> r.l # EmptyLocation, Location |-> r.l,
      set |-> [host |-> host, path |-> path, location |-> r.l, code |-> r.s,
               cacheControlMaxAge |-> 0]]

\* handleRequest answering every cache hit with the default redirect status
handleRequestHit_DefaultStatus(config, r, cached, from) ==
  [NoResponse EXCEPT
     !.kind = "hit", !.Host = r.Host, !.host = r.host, !.path = r.path, !.params = r.params,
     !.cacheStatus = "cached",
     !.hasLocation = TRUE, !.Location = cached.location,
     !.cacheControl = setCacheControlMaxAge(config.CacheControlMaxAge, cached.cacheMaxAge),
     !.status = defaultStatusCode,
     !.src = from]

\* handleRequest on a cache hit: the response written from the CacheResponse
handleRequestHit(config, r, cached, from) ==
  [NoResponse EXCEPT
     !.kind = "hit", !.Host = r.Host, !.host = r.host, !.path = r.path, !.params = r.params,
     !.cacheStatus = "cached",
     !.hasLocation = TRUE, !.Location = cached.location,
     !.cacheControl = setCacheControlMaxAge(config.CacheControlMaxAge, cached.cacheMaxAge),
     !.status = cached.code,
     !.src = from]

\* the response when a matched rule cannot be applied, always with status 404
fallbackResponse_NotFound(config, r, kind, rule) ==
  [NoResponse EXCEPT
     !.kind = kind, !.Host = r.Host, !.host = r.host, !.path = r.path, !.params = r.params,
     !.hasLocation = (config.LocationOnMiss # EmptyLocation),
     !.Location = config.LocationOnMiss,
     !.status = StatusNotFound,
     !.rule = rule]

\* the response of handleRequest when a matched rule cannot be applied
fallbackResponse(config, r, kind, rule) ==
  [NoResponse EXCEPT
     !.kind = kind, !.Host = r.Host, !.host = r.host, !.path = r.path, !.params = r.params,
     !.hasLocation = (config.LocationOnMiss # EmptyLocation),
     !.Location = config.LocationOnMiss,
     !.status = config.StatusOnMiss,
     !.rule = rule]

\* handleRequest after a cache miss, up to its call of cache.Set:
\* the response written, whether cache.Set is called, and with what
handleRequestMiss(config, r) ==
  LET m == findMatch(r.host, r.path, config.RuleMap)
      rule == m.rule
  IN IF m.err # "nil"
       THEN LET e == handleMatchError(m.err, r.host, r.path, config.LocationOnMiss) IN
         [resp |-> [NoResponse EXCEPT
                      !.kind = "nomatch", !.Host = r.Host, !.host = r.host, !.path = r.path,
                      !.params = r.params, !.status = e.status,
                      !.hasLocation = e.hasLocation, !.Location = e.Location,
                      !.matchErr = m.err],
          set |-> TRUE, parameters |-> e.set]
       ELSE LET p == rewritePath(r.path, rule.compiled, rule.To) IN
         IF p.err = "panic"
           THEN [resp |-> [NoResponse EXCEPT
                             !.kind = "panic", !.Host = r.Host, !.host = r.host, !.path = r.path,
                             !.params = r.params, !.rule = rule],
                 set |-> FALSE, parameters |-> NoPending]
         ELSE IF p.err # "nil"
           THEN [resp |-> fallbackResponse(config, r, "rewriteerr", rule),
                 set |-> FALSE, parameters |-> NoPending]
         ELSE LET newParams == buildLocationParams(rule.Parameters.Strategy, r.params,
                                                   rule.Parameters.Values)
                  location == buildLocationHeader(rule.To, p.path, newParams.params)
              IN IF location.err # "nil"
                   THEN [resp |-> fallbackResponse(config, r, "locationerr", rule),
                         set |-> FALSE, parameters |-> NoPending]
                   ELSE [resp |-> [NoResponse EXCEPT
                                     !.kind = "match", !.Host = r.Host, !.host = r.host, !.path = r.path,
                                     !.params = r.params,
                                     !.hasLocation = TRUE, !.Location = location.location,
                                     !.cacheControl =
                                        setCacheControlMaxAge(config.CacheControlMaxAge,
                                                              rule.CacheControlMaxAge),
                                     !.status = rule.Code,
                                     !.rule = rule, !.newParams = newParams.params,
                                     !.paramsErr = newParams.err],
                         set |-> TRUE,
                         parameters |-> [host |-> r.host, path |-> r.path,
                                         location |-> location.location,
                                         code |-> rule.Code,
                                         cacheControlMaxAge |-> rule.CacheControlMaxAge]]

\* ---------------------------------------------------------------- actions

Init ==
  /\ \E file \in StartupFiles :
       /\ ac = Loaded[file].cfg
       /\ ttl = file.Cache.TTL
  /\ cache = <<>>
  /\ now = 0
  /\ hpc = "idle"
  /\ req = NoRequest
  /\ pending = NoPending
  /\ resp = NoResponse
  /\ origin = <<>>
  /\ epc = "scan"
  /\ etarget = <<>>
  /\ nreq = 0
  /\ call = NoCall
  /\ cancelled = FALSE
  /\ rpc = "select"
  /\ esleep = 0
  /\ epass = NoPass
  /\ lock = NoLock
  /\ hs = NoHandlers

\* a request arrives; a hit gives the item it is answered from a new createdAt
HandleRequestGet_HitRefreshes(rawHost, path, params) ==
  /\ hpc = "idle"
  /\ nreq < MaxRequests
  /\ LET r == [Host |-> rawHost,
               host |-> IF IndexOf(rawHost, ":", 1) # 0 THEN StripPort(rawHost)
                        ELSE rawHost,
               path |-> path, params |-> params]
         cached == Get(cache, [host |-> r.host, path |-> r.path])
     IN IF ~cached.nil
          THEN /\ resp' = handleRequestHit(ac, r, cached, origin[<<r.host, r.path>>])
               /\ cache' = [cache EXCEPT ![r.host][r.path].createdAt = now]
               /\ UNCHANGED <<hpc, req>>
          ELSE /\ hpc' = "miss"
               /\ req' = r
               /\ UNCHANGED <<resp, cache>>
  /\ nreq' = nreq + 1
  /\ UNCHANGED <<ac, ttl, now, pending, origin, epc, etarget, call, life>>

\* a request arrives: the host is normalized and the cache is consulted;
\* on a hit the cached response is written
HandleRequestGet(rawHost, path, params) ==
  /\ hpc = "idle"
  /\ nreq < MaxRequests
  /\ LET r == [Host |-> rawHost,
               host |-> IF IndexOf(rawHost, ":", 1) # 0 THEN StripPort(rawHost)
                        ELSE rawHost,
               path |-> path, params |-> params]
         cached == Get(cache, [host |-> r.host, path |-> r.path])
     IN IF ~cached.nil
          THEN /\ resp' = handleRequestHit(ac, r, cached, origin[<<r.host, r.path>>])
               /\ UNCHANGED <<hpc, req>>
          ELSE /\ hpc' = "miss"
               /\ req' = r
               /\ UNCHANGED resp
  /\ nreq' = nreq + 1
  /\ UNCHANGED <<ac, ttl, cache, now, pending, origin, epc, etarget, call, life>>

\* after a miss: match, rewrite, compose, assemble, and write the response
HandleRequestMatch ==
  /\ hpc = "miss"
  /\ LET h == handleRequestMiss(ac, req) IN
       /\ resp' = h.resp
       /\ pending' = h.parameters
       /\ hpc' = IF h.set THEN "set" ELSE "idle"
       /\ req' = IF h.set THEN req ELSE NoRequest
  /\ UNCHANGED <<ac, ttl, cache, now, origin, epc, etarget, nreq, call, life>>

\* the handler's call of cache.Set, after the response is written
HandleRequestSet ==
  /\ hpc = "set"
  /\ cache' = Set(cache, pending, ttl, now)
  /\ origin' = Put(origin, <<pending.host, pending.path>>, Summary(resp))
  /\ hpc' = "idle"
  /\ req' = NoRequest
  /\ pending' = NoPending
  /\ UNCHANGED <<ac, ttl, now, resp, epc, etarget, nreq, call, life>>

\* the cleanup loop finds an expired item while it ranges over the cache
CleanupCheck(host, path) ==
  /\ epc = "scan"
  /\ host \in DOMAIN cache
  /\ path \in DOMAIN cache[host]
  /\ now > cache[host][path].createdAt + cache[host][path].ttl
  /\ epc' = "delete"
  /\ etarget' = <<host, path>>
  /\ UNCHANGED <<ac, ttl, cache, now, hpc, req, pending, resp, origin, nreq, call, life>>

\* the cleanup loop deletes the item it found, under the lock
CleanupDelete ==
  /\ epc = "delete"
  /\ cache' = [cache EXCEPT ![etarget[1]] = Remove(@, etarget[2])]
  /\ origin' = Remove(origin, etarget)
  /\ epc' = "scan"
  /\ etarget' = <<>>
  /\ UNCHANGED <<ac, ttl, now, hpc, req, pending, resp, nreq, call, life>>

\* the reloader taking the table of a failed load
Reload_FailureClears(file) ==
  /\ ac' = [ac EXCEPT !.RuleMap = Loaded[file].cfg.RuleMap]
  /\ UNCHANGED <<ttl, cache, now, hpc, req, pending, resp, origin, epc, etarget, nreq, call, life>>

\* the reloader writing the new buckets into the live table, bucket by bucket
Reload_MergesBuckets(file) ==
  /\ LET l == Loaded[file]
         old == ac.RuleMap
         new == l.cfg.RuleMap
     IN ac' = IF l.err # "nil" THEN ac
              ELSE [ac EXCEPT !.RuleMap =
                      [h \in (DOMAIN old) \cup (DOMAIN new) |->
                         IF h \in DOMAIN new THEN new[h] ELSE old[h]]]
  /\ UNCHANGED <<ttl, cache, now, hpc, req, pending, resp, origin, epc, etarget, nreq, call, life>>

\* the reloader emptying the cache when it has loaded a config
Reload_BustsCache(file) ==
  /\ LET l == Loaded[file] IN
       /\ ac' = IF l.err # "nil" THEN ac ELSE [ac EXCEPT !.RuleMap = l.cfg.RuleMap]
       /\ cache' = IF l.err # "nil" THEN cache ELSE <<>>
       /\ origin' = IF l.err # "nil" THEN origin ELSE <<>>
  /\ UNCHANGED <<ttl, now, hpc, req, pending, resp, epc, etarget, nreq, call, life>>

\* the reloader replacing the whole AppConfig, and the cache's ttl, by the loaded ones
Reload_TakesWholeConfig(file) ==
  /\ LET l == Loaded[file] IN
       /\ ac' = IF l.err # "nil" THEN ac ELSE l.cfg
       /\ ttl' = IF l.err # "nil" THEN ttl ELSE l.cfg.Cache.TTL
  /\ UNCHANGED <<cache, now, hpc, req, pending, resp, origin, epc, etarget, nreq, call, life>>

\* the reloader on a watcher event
Reload(file) ==
  /\ LET l == Loaded[file] IN
       ac' = IF l.err # "nil" THEN ac ELSE [ac EXCEPT !.RuleMap = l.cfg.RuleMap]
  /\ UNCHANGED <<ttl, cache, now, hpc, req, pending, resp, origin, epc, etarget, nreq, call, life>>

\* a second passes
Tick ==
  /\ now < MaxTime
  /\ now' = now + 1
  /\ UNCHANGED <<ac, ttl, cache, hpc, req, pending, resp, origin, epc, etarget, nreq,
                 call, life>>

Next ==
  \/ \E rq \in Requests, params \in RequestParams :
       HandleRequestGet(rq[1], rq[2], params)
  \/ HandleRequestMatch
  \/ HandleRequestSet
  \/ \E host \in {StripPort(h) : h \in RequestHosts}, path \in Paths : CleanupCheck(host, path)
  \/ CleanupDelete
  \/ \E file \in ConfigFiles : Reload(file)
  \/ Tick

Spec == Init /\ [][Next]_vars

\* ------------------------------------ the functions called on their own

\* the rules a bucket is drawn from
RulePool ==
  { RawRule(<<"h1">>, RePrefix, ToY, 0, "replace", RuleValues, 0),
    RawRule(<<"h1">>, ReExact, ToZ, 302, "combine", RuleValues, -1),
    RawRule(<<"h1">>, ReAlt, ToX, 0, "", RuleValues, 0),
    RawRule(<<"h1">>, ReRest, ToW, 307, "idontexist", RuleValues2, 5) }

\* the sequences of at most n distinct elements of S
RECURSIVE SeqsUpTo(_, _)
SeqsUpTo(S, n) ==
  IF n = 0 THEN {<<>>}
  ELSE LET shorter == SeqsUpTo(S, n - 1) IN
    shorter \cup {Append(q, x) : q \in {t \in shorter : Len(t) = n - 1},
                                 x \in S} 

NoRepeat(q) == \A i, j \in 1..Len(q) : i # j => q[i] # q[j]

\* the longest bucket of a rule table given to findMatch
MaxBucket == 3

\* the rule tables the compiler makes of the rules of the pool
RuleTables ==
  { bucketRules(buildRules(q, defaultStatusCode, defaultParameterStrategy, 7)) :
      q \in {t \in SeqsUpTo(RulePool, MaxBucket) : NoRepeat(t)} }

\* the longest list of values of a parameter
MaxValues == 2

ValueLists == SeqsUpTo({"v1", "v2"}, MaxValues) \ {<<>>}

\* url.Values over the keys k1 and k2
AllValues ==
  UNION { [keys -> ValueLists] : keys \in SUBSET {"k1", "k2"} }

Strategies == {ParamsStrategyCombine, ParamsStrategyReplace, ParamsStrategyUnset,
               "idontexist"}

\* the inputs of one call, drawn at the start
FindMatchCalls ==
  { [fn |-> "findMatch", done |-> FALSE, hostname |-> hostname, path |-> path,
     rules |-> rules, out |-> [rule |-> NilRule, err |-> "nil"]] :
      hostname \in {<<"h1">>, <<"h2">>}, path \in Paths, rules \in RuleTables }

BuildLocationParamsCalls ==
  { [fn |-> "buildLocationParams", done |-> FALSE, strategy |-> strategy, c |-> c,
     n |-> n, out |-> [params |-> NoValues, err |-> "nil"]] :
      strategy \in Strategies, c \in AllValues, n \in AllValues }

\* the errors handleMatchError is given: the matcher's two, and any other
MatchErrors == {"NoRuleForHostError", "NoRuleForPathError", "error"}

HandleMatchErrorCalls ==
  { [fn |-> "handleMatchError", done |-> FALSE, err |-> err, host |-> host, path |-> path,
     fallback |-> fallback,
     out |-> [status |-> 0, hasLocation |-> FALSE, Location |-> EmptyLocation,
              set |-> NoPending]] :
      err \in MatchErrors, host \in {<<"h1">>, <<"h2">>}, path \in Paths,
      fallback \in {EmptyLocation, Fallback} }

InitFn ==
  /\ ac = Loaded[File1].cfg
  /\ ttl = File1.Cache.TTL
  /\ cache = <<>>
  /\ now = 0
  /\ hpc = "idle"
  /\ req = NoRequest
  /\ pending = NoPending
  /\ resp = NoResponse
  /\ origin = <<>>
  /\ epc = "scan"
  /\ etarget = <<>>
  /\ nreq = 0
  /\ call \in FindMatchCalls \cup BuildLocationParamsCalls \cup HandleMatchErrorCalls
  /\ cancelled = FALSE
  /\ rpc = "select"
  /\ esleep = 0
  /\ epass = NoPass
  /\ lock = NoLock
  /\ hs = NoHandlers

CallFindMatch ==
  /\ call.fn = "findMatch"
  /\ ~call.done
  /\ call' = [call EXCEPT !.done = TRUE,
                          !.out = findMatch(call.hostname, call.path, call.rules)]
  /\ UNCHANGED <<ac, ttl, cache, now, hpc, req, pending, resp, origin, epc, etarget, nreq, life>>

CallBuildLocationParams ==
  /\ call.fn = "buildLocationParams"
  /\ ~call.done
  /\ call' = [call EXCEPT !.done = TRUE,
                          !.out = buildLocationParams(call.strategy, call.c, call.n)]
  /\ UNCHANGED <<ac, ttl, cache, now, hpc, req, pending, resp, origin, epc, etarget, nreq, life>>

\* handleMatchError writes the response and calls cache.Set
CallHandleMatchError ==
  /\ call.fn = "handleMatchError"
  /\ ~call.done
  /\ LET e == handleMatchError(call.err, call.host, call.path, call.fallback) IN
       /\ call' = [call EXCEPT !.done = TRUE, !.out = e]
       /\ cache' = Set(cache, e.set, ttl, now)
  /\ UNCHANGED <<ac, ttl, now, hpc, req, pending, resp, origin, epc, etarget, nreq, life>>

NextFn ==
  \/ CallFindMatch
  \/ CallBuildLocationParams
  \/ CallHandleMatchError

SpecFn == InitFn /\ [][NextFn]_vars

\* ------------------------------------------- the config compiler on its own

\* the longest ruleset of a config file given to loadConfig
MaxRules == 2

\* h1/a(
FromUnclosed == <<"h1", "/", "a", "(">>

\* the rules a config file is drawn from: valid ones, with and without declared
\* values, and one for each way of being rejected or nearly so
CfgRulePool ==
  { RawRule(<<"h1">>, RePrefix, ToY, 0, "", RuleValues, 0),
    RawRule(<<"h1", ":", "80">>, ReAlt, ToX, 302, "replace", RuleValues2, -1),
    RawRule(<<"h2">>, ReRest, ToW, 307, "combine", NoValues, 5),
    RawRule(<<"h1", "*">>, RePrefix, ToY, 0, "", NoValues, 0),
    RawRule(<<"h2">>, RePrefix, ToNoProto, 0, "", NoValues, 0),
    [RawRule(<<"h1">>, RePrefix, ToZ, 0, "", NoValues, 0) EXCEPT !.From = FromUnclosed],
    RawRule(<<"h1", "U+00E9">>, ReExact, ToZ, 0, "", NoValues, 0),
    RawRule(<<":", "80">>, ReExact, ToZ, 0, "", NoValues, 0) }

\* the config files given to loadConfig
CfgFiles ==
  { [loads |-> TRUE, LocationOnMiss |-> EmptyLocation, StatusOnMiss |-> defaultStatusOnMiss,
     DefaultParameterStrategy |-> s, CacheControlMaxAge |-> a, Cache |-> CacheSettings,
     Rules |-> r] :
       s \in {defaultParameterStrategy, ParamsStrategyReplace, ParamsStrategyUnset},
       a \in {-1, 0, 7},
       r \in SeqsUpTo(CfgRulePool, MaxRules) }
  \cup {FileBroken}

LoadConfigCalls ==
  { [fn |-> "loadConfig", done |-> FALSE, file |-> file,
     out |-> [cfg |-> [RuleMap |-> <<>>], err |-> "nil"]] : file \in CfgFiles }

\* the parts from directives are made of
FromSchemes == {<<"http">>, <<"ssh">>}
FromHosts == {<<>>, <<"h1">>, <<"h1", ".", "h2">>, <<"h1", "-", "h2">>, <<"h1", "U+00E9">>,
              <<"h1", "*">>, <<"h1", "$">>}
FromPorts == {<<>>, <<":", "80">>, <<":", "a">>}
FromPaths == {<<>>, <<"/">>, <<"/", "a">>, Text(ReAlt), <<"/", "a", "(">>,
              <<"/", "a", ":", "/", "/", "b">>}

\* fromAsURL is called on a directive f without a leading scheme and on g, the
\* same directive after a scheme
FromAsURLCalls ==
  { [fn |-> "fromAsURL", done |-> FALSE, scheme |-> scheme, host |-> host, port |-> port,
     path |-> path, f |-> host \o port \o path,
     g |-> scheme \o <<":", "/", "/">> \o host \o port \o path,
     out |-> NilURL, outG |-> NilURL] :
       scheme \in FromSchemes, host \in FromHosts, port \in FromPorts, path \in FromPaths }

InitCfg ==
  /\ ac = Loaded[File1].cfg
  /\ ttl = File1.Cache.TTL
  /\ cache = <<>>
  /\ now = 0
  /\ hpc = "idle"
  /\ req = NoRequest
  /\ pending = NoPending
  /\ resp = NoResponse
  /\ origin = <<>>
  /\ epc = "scan"
  /\ etarget = <<>>
  /\ nreq = 0
  /\ call \in LoadConfigCalls \cup FromAsURLCalls
  /\ cancelled = FALSE
  /\ rpc = "select"
  /\ esleep = 0
  /\ epass = NoPass
  /\ lock = NoLock
  /\ hs = NoHandlers

CallLoadConfig ==
  /\ call.fn = "loadConfig"
  /\ ~call.done
  /\ call' = [call EXCEPT !.done = TRUE, !.out = loadConfig(call.file)]
  /\ UNCHANGED <<ac, ttl, cache, now, hpc, req, pending, resp, origin, epc, etarget, nreq, life>>

CallFromAsURL ==
  /\ call.fn = "fromAsURL"
  /\ ~call.done
  /\ call' = [call EXCEPT !.done = TRUE, !.out = fromAsURL(call.f),
                          !.outG = fromAsURL(call.g)]
  /\ UNCHANGED <<ac, ttl, cache, now, hpc, req, pending, resp, origin, epc, etarget, nreq, life>>

NextCfg == CallLoadConfig \/ CallFromAsURL

SpecCfg == InitCfg /\ [][NextCfg]_vars

\* ------------------------------------- requests that differ in their query

\* the requests sent: /a and /ab to h1
QueryRequests == {<<<<"h1">>, <<"/", "a">>>>, <<<<"h1">>, <<"/", "a", "b">>>>}

\* the query of a request: k1=v0&k2=v0&k2=v9, or none
QueryParams == RequestParams \cup {NoValues}

\* the server with the rule table left as loaded at startup
NextQuery ==
  \/ \E rq \in QueryRequests, params \in QueryParams :
       HandleRequestGet(rq[1], rq[2], params)
  \/ HandleRequestMatch
  \/ HandleRequestSet
  \/ \E rq \in QueryRequests : CleanupCheck(StripPort(rq[1]), rq[2])
  \/ CleanupDelete
  \/ Tick

SpecQuery == Init /\ [][NextQuery]_vars

\* ------------------------------- the goroutines from start to cancellation

\* the (host, path) pairs that have an item in the cache
Keys(c) == UNION { {<<h, p>> : p \in DOMAIN c[h]} : h \in DOMAIN c }

\* now > item.createdAt + item.ttl
Expired(item, t) == t > item.createdAt + item.ttl

\* the requests sent while the loops are followed
LifeRequests == {<<<<"h1">>, <<"/", "a", "b">>>>, <<<<"h1">>, <<"/", "b">>>>}

\* the config files the watcher's events find
LifeFiles == {File1, FileBroken}

InitLife ==
  /\ ac = Loaded[File3].cfg
  /\ ttl = File3.Cache.TTL
  /\ cache = <<>>
  /\ now = 0
  /\ hpc = "idle"
  /\ req = NoRequest
  /\ pending = NoPending
  /\ resp = NoResponse
  /\ origin = <<>>
  /\ epc = "top"
  /\ etarget = <<>>
  /\ nreq = 0
  /\ call = NoCall
  /\ cancelled = FALSE
  /\ rpc = "select"
  /\ esleep = 0
  /\ epass = NoPass
  /\ lock = NoLock
  /\ hs = NoHandlers

\* the top of the cleanup loop: it returns when the context is cancelled, and
\* begins to range over the cache otherwise
CleanupTop ==
  /\ epc = "top"
  /\ IF cancelled
       THEN /\ epc' = "exited"
            /\ UNCHANGED epass
       ELSE /\ epc' = "scan"
            /\ epass' = [start |-> Keys(cache),
                         old |-> {<<k, cache[k[1]][k[2]].createdAt>> :
                                    k \in {x \in Keys(cache) :
                                             Expired(cache[x[1]][x[2]], now)}},
                         done |-> {}]
  /\ UNCHANGED <<ac, ttl, cache, now, hpc, req, pending, resp, origin, etarget, nreq, call,
                 cancelled, rpc, esleep, conc>>

\* the range produces an item and finds it not expired, whenever it looks
CleanupRange_NeverExpired(host, path) ==
  /\ epc = "scan"
  /\ <<host, path>> \in Keys(cache) \ epass.done
  /\ epass' = [epass EXCEPT !.done = @ \cup {<<host, path>>}]
  /\ UNCHANGED <<epc, etarget>>
  /\ UNCHANGED <<ac, ttl, cache, now, hpc, req, pending, resp, origin, nreq, call,
                 cancelled, rpc, esleep, conc>>

\* the range produces an item it has not produced yet and compares its age
CleanupRange(host, path) ==
  /\ epc = "scan"
  /\ <<host, path>> \in Keys(cache) \ epass.done
  /\ epass' = [epass EXCEPT !.done = @ \cup {<<host, path>>}]
  /\ IF Expired(cache[host][path], now)
       THEN /\ epc' = "delete"
            /\ etarget' = <<host, path>>
       ELSE UNCHANGED <<epc, etarget>>
  /\ UNCHANGED <<ac, ttl, cache, now, hpc, req, pending, resp, origin, nreq, call,
                 cancelled, rpc, esleep, conc>>

\* the range ends when every item that was in the map when it began, and still
\* is, has been produced; the loop goes to sleep for the cleanup interval
CleanupFinish ==
  /\ epc = "scan"
  /\ (epass.start \cap Keys(cache)) \subseteq epass.done
  /\ epc' = "sleep"
  /\ esleep' = ac.Cache.CleanupInterval
  /\ UNCHANGED <<ac, ttl, cache, now, hpc, req, pending, resp, origin, etarget, nreq, call,
                 cancelled, rpc, epass, conc>>

\* time.Sleep returns
CleanupWake ==
  /\ epc = "sleep"
  /\ esleep = 0
  /\ epc' = "top"
  /\ UNCHANGED <<ac, ttl, cache, now, hpc, req, pending, resp, origin, etarget, nreq, call,
                 cancelled, rpc, esleep, epass, conc>>

\* the reloader's select takes a watcher event
ReloaderEvent(file) ==
  /\ rpc = "select"
  /\ Reload(file)

\* the reloader's select takes ctx.Done() and the reloader returns
ReloaderDone ==
  /\ rpc = "select"
  /\ cancelled
  /\ rpc' = "exited"
  /\ UNCHANGED <<ac, ttl, cache, now, hpc, req, pending, resp, origin, epc, etarget, nreq,
                 call, cancelled, esleep, epass, conc>>

\* the root context is cancelled
Cancel ==
  /\ ~cancelled
  /\ cancelled' = TRUE
  /\ UNCHANGED <<ac, ttl, cache, now, hpc, req, pending, resp, origin, epc, etarget, nreq,
                 call, rpc, esleep, epass, conc>>

\* a second passes; the clock is followed up to MaxTime, a sleep to its end
Elapse ==
  /\ now < MaxTime \/ (epc = "sleep" /\ esleep > 0)
  /\ now' = IF now < MaxTime THEN now + 1 ELSE now
  /\ esleep' = IF epc = "sleep" /\ esleep > 0 THEN esleep - 1 ELSE esleep
  /\ UNCHANGED <<ac, ttl, cache, hpc, req, pending, resp, origin, epc, etarget, nreq, call,
                 cancelled, rpc, epass, conc>>

NextLife ==
  \/ \E rq \in LifeRequests, params \in RequestParams :
       HandleRequestGet(rq[1], rq[2], params)
  \/ HandleRequestMatch
  \/ HandleRequestSet
  \/ CleanupTop
  \/ \E rq \in LifeRequests : CleanupRange(StripPort(rq[1]), rq[2])
  \/ CleanupDelete
  \/ CleanupFinish
  \/ CleanupWake
  \/ \E file \in LifeFiles : ReloaderEvent(file)
  \/ ReloaderDone
  \/ Cancel
  \/ Elapse

\* the goroutines are scheduled and time passes
FairLife ==
  /\ WF_vars(CleanupTop)
  /\ WF_vars(\E rq \in LifeRequests : CleanupRange(StripPort(rq[1]), rq[2]))
  /\ WF_vars(CleanupDelete)
  /\ WF_vars(CleanupFinish)
  /\ WF_vars(CleanupWake)
  /\ WF_vars(ReloaderDone)
  /\ WF_vars(Elapse)

SpecLife == InitLife /\ [][NextLife]_vars /\ FairLife

\* ------------------------- the accesses of the cache map, one by one

\* Every access of c.cache has a beginning and an end.  A handler goroutine
\* is at "idle", "reading" (in Get, RLock held), "miss", "set" (before Set),
\* "writing" (in Set, Lock held) or "dead"; the cleanup loop is at "top",
\* "scan", "reading" (the range fetches its next item, no lock held), "delete"
\* (expired item found), "deleting" (Lock held), "sleep" or "dead".

InitMap ==
  /\ ac = Loaded[File3].cfg
  /\ ttl = File3.Cache.TTL
  /\ cache = <<>>
  /\ now = 0
  /\ hpc = "idle"
  /\ req = NoRequest
  /\ pending = NoPending
  /\ resp = NoResponse
  /\ origin = <<>>
  /\ epc = "top"
  /\ etarget = <<>>
  /\ nreq = 0
  /\ call = NoCall
  /\ cancelled = FALSE
  /\ rpc = "select"
  /\ esleep = 0
  /\ epass = NoPass
  /\ lock = NoLock
  /\ hs = NoHandlers

\* a request arrives at goroutine i, which enters Get and takes RLock
GetRLock(i, rawHost, path, params) ==
  /\ hs[i].pc = "idle"
  /\ nreq < MaxRequests
  /\ lock.w = "none"
  /\ lock' = [lock EXCEPT !.r = @ \cup {i}]
  /\ hs' = [hs EXCEPT ![i].pc = "reading",
                      ![i].req = [Host |-> rawHost,
                                  host |-> IF IndexOf(rawHost, ":", 1) # 0
                                             THEN StripPort(rawHost) ELSE rawHost,
                                  path |-> path, params |-> params]]
  /\ nreq' = nreq + 1
  /\ UNCHANGED <<ac, ttl, cache, now, hpc, req, pending, resp, origin, epc, etarget, call,
                 cancelled, rpc, esleep, epass>>

\* Get returns and releases RLock; on a hit the cached response is written
GetReturn(i) ==
  /\ hs[i].pc = "reading"
  /\ lock' = [lock EXCEPT !.r = @ \ {i}]
  /\ LET r == hs[i].req
         cached == Get(cache, [host |-> r.host, path |-> r.path])
     IN IF ~cached.nil
          THEN /\ resp' = handleRequestHit(ac, r, cached, origin[<<r.host, r.path>>])
               /\ hs' = [hs EXCEPT ![i] = NoHandlers[i]]
          ELSE /\ hs' = [hs EXCEPT ![i].pc = "miss"]
               /\ UNCHANGED resp
  /\ UNCHANGED <<ac, ttl, cache, now, hpc, req, pending, origin, epc, etarget, nreq, call,
                 cancelled, rpc, esleep, epass>>

\* goroutine i after a miss: match, rewrite, compose, assemble, write the response
MissMatch(i) ==
  /\ hs[i].pc = "miss"
  /\ LET h == handleRequestMiss(ac, hs[i].req) IN
       /\ resp' = h.resp
       /\ hs' = [hs EXCEPT ![i] = IF h.set
                                    THEN [pc |-> "set", req |-> hs[i].req,
                                          pending |-> h.parameters,
                                          sent |-> Summary(h.resp)]
                                    ELSE NoHandlers[i]]
  /\ UNCHANGED <<ac, ttl, cache, now, hpc, req, pending, origin, epc, etarget, nreq, call,
                 cancelled, rpc, esleep, epass, lock>>

\* goroutine i enters Set and takes Lock
SetLock(i) ==
  /\ hs[i].pc = "set"
  /\ lock = NoLock
  /\ lock' = [lock EXCEPT !.w = i]
  /\ hs' = [hs EXCEPT ![i].pc = "writing"]
  /\ UNCHANGED <<ac, ttl, cache, now, hpc, req, pending, resp, origin, epc, etarget, nreq,
                 call, cancelled, rpc, esleep, epass>>

\* Set has written the item and releases Lock
SetReturn(i) ==
  /\ hs[i].pc = "writing"
  /\ cache' = Set(cache, hs[i].pending, ttl, now)
  /\ origin' = Put(origin, <<hs[i].pending.host, hs[i].pending.path>>, hs[i].sent)
  /\ lock' = [lock EXCEPT !.w = "none"]
  /\ hs' = [hs EXCEPT ![i] = NoHandlers[i]]
  /\ UNCHANGED <<ac, ttl, now, hpc, req, pending, resp, epc, etarget, nreq, call,
                 cancelled, rpc, esleep, epass>>

\* the range of the cleanup loop begins to fetch an item it has not produced
\* yet; it holds no lock
RangeRead(host, path) ==
  /\ epc = "scan"
  /\ <<host, path>> \in Keys(cache) \ epass.done
  /\ epc' = "reading"
  /\ etarget' = <<host, path>>
  /\ UNCHANGED <<ac, ttl, cache, now, hpc, req, pending, resp, origin, nreq, call,
                 cancelled, rpc, esleep, epass, conc>>

\* the range has its item and compares the item's age
RangeProduce ==
  /\ epc = "reading"
  /\ epass' = [epass EXCEPT !.done = @ \cup {etarget}]
  /\ IF Expired(cache[etarget[1]][etarget[2]], now)
       THEN /\ epc' = "delete"
            /\ UNCHANGED etarget
       ELSE /\ epc' = "scan"
            /\ etarget' = <<>>
  /\ UNCHANGED <<ac, ttl, cache, now, hpc, req, pending, resp, origin, nreq, call,
                 cancelled, rpc, esleep, conc>>

\* the range reads the map while a Set writes it: the runtime may stop the
\* process with "concurrent map iteration and map write"
MapFault ==
  /\ epc = "reading"
  /\ \E i \in Handlers : hs[i].pc = "writing"
  /\ epc' = "dead"
  /\ hs' = [i \in Handlers |-> [hs[i] EXCEPT !.pc = "dead"]]
  /\ UNCHANGED <<ac, ttl, cache, now, hpc, req, pending, resp, origin, etarget, nreq, call,
                 cancelled, rpc, esleep, epass, lock>>

\* the cleanup loop takes Lock for the item it found expired
DeleteLock ==
  /\ epc = "delete"
  /\ lock = NoLock
  /\ lock' = [lock EXCEPT !.w = "cleanup"]
  /\ epc' = "deleting"
  /\ UNCHANGED <<ac, ttl, cache, now, hpc, req, pending, resp, origin, etarget, nreq, call,
                 cancelled, rpc, esleep, epass, hs>>

\* delete(domain, path) is done and Lock released
DeleteReturn ==
  /\ epc = "deleting"
  /\ cache' = [cache EXCEPT ![etarget[1]] = Remove(@, etarget[2])]
  /\ origin' = Remove(origin, etarget)
  /\ lock' = [lock EXCEPT !.w = "none"]
  /\ epc' = "scan"
  /\ etarget' = <<>>
  /\ UNCHANGED <<ac, ttl, now, hpc, req, pending, resp, nreq, call,
                 cancelled, rpc, esleep, epass, hs>>

NextMap ==
  \/ \E i \in Handlers, rq \in LifeRequests, params \in RequestParams :
       GetRLock(i, rq[1], rq[2], params)
  \/ \E i \in Handlers : GetReturn(i)
  \/ \E i \in Handlers : MissMatch(i)
  \/ \E i \in Handlers : SetLock(i)
  \/ \E i \in Handlers : SetReturn(i)
  \/ CleanupTop
  \/ \E rq \in LifeRequests : RangeRead(StripPort(rq[1]), rq[2])
  \/ RangeProduce
  \/ MapFault
  \/ DeleteLock
  \/ DeleteReturn
  \/ CleanupFinish
  \/ CleanupWake
  \/ Elapse

SpecMap == InitMap /\ [][NextMap]_vars

\* ------------------------------------------------------------------ claims

\* the positions of the rules of a bucket whose compiled pattern matches path
Matching(bucket, path) ==
  {i \in 1..Len(bucket) : MatchString(bucket[i].compiled, path)}

Least(S) == CHOOSE x \in S : \A y \in S : x <= y
Greatest(S) == CHOOSE x \in S : \A y \in S : x >= y

\* C1: when some rule of the host's bucket matches the path, findMatch returns
\* the first rule of the bucket, in declaration order, whose compiled pattern
\* matches the path (so no rule declared after that one is returned)
C1_FirstMatchingRuleReturned ==
  (call.fn = "findMatch" /\ call.done /\ call.hostname \in DOMAIN call.rules) =>
    LET bucket == call.rules[call.hostname]
        m == Matching(bucket, call.path)
    IN m # {} => /\ call.out.err = "nil"
                 /\ call.out.rule = bucket[Least(m)]

\* C2: when two or more rules of the host's bucket match the request path, the
\* redirect the handler writes comes from the last-declared of them
C2_LastDeclaredWins ==
  [][ (hpc = "miss" /\ hpc' = "set" /\ resp'.kind = "match") =>
        LET bucket == ac.RuleMap[req.host]
            m == Matching(bucket, req.path)
        IN Cardinality(m) >= 2 => resp'.rule = bucket[Greatest(m)] ]_vars

C4_StatusOnMissSent ==
  (resp.kind = "nomatch" /\ ac.LocationOnMiss = EmptyLocation) =>
     /\ resp.status = ac.StatusOnMiss
     /\ ~resp.hasLocation

\* C5: after a no-match response the handler calls cache.Set for the request's
\* (host, path) with the fallback location and the status it sent; the call
\* stores them; and a later request served from that entry gets the status of
\* the response that created the entry
C5_NoMatchCached ==
  [][ /\ (hpc = "miss" /\ hpc' # "miss" /\ resp'.kind = "nomatch") =>
           /\ hpc' = "set"
           /\ pending' = [host |-> req.host, path |-> req.path,
                          location |-> ac.LocationOnMiss, code |-> resp'.status,
                          cacheControlMaxAge |-> 0]
      /\ (hpc = "set" /\ hpc' # "set" /\ resp.kind = "nomatch") =>
           /\ pending.host \in DOMAIN cache'
           /\ pending.path \in DOMAIN cache'[pending.host]
           /\ cache'[pending.host][pending.path].location = ac.LocationOnMiss
           /\ cache'[pending.host][pending.path].code = resp.status
      /\ (nreq' # nreq /\ resp'.kind = "hit" /\ hpc' = "idle"
          /\ resp'.src.kind = "nomatch") =>
           resp'.status = resp'.src.status ]_vars

C5_Witness ==
  /\ resp.kind = "hit"
  /\ resp.src.kind = "nomatch"
  /\ resp.status = resp.src.status

\* C6: a response served from the cache has the Location and the status code
\* of the non-cached response for the same (host, path) that created the entry
C6_HitRepeatsOrigin ==
  resp.kind = "hit" =>
    /\ resp.src.kind \in {"match", "nomatch"}
    /\ resp.Location = resp.src.Location
    /\ resp.status = resp.src.status

C6_Witness ==
  /\ resp.kind = "hit"
  /\ resp.src.kind = "match"
  /\ resp.status = 302

\* the Cache-Control header for a rule max-age r and a server max-age d
CacheControlPolicy(r, d) ==
  IF r = -1 THEN NoCacheControl
  ELSE IF r = 0 THEN (IF d > -1 THEN [set |-> TRUE, maxAge |-> d] ELSE NoCacheControl)
  ELSE [set |-> TRUE, maxAge |-> r]

\* C7: a response derived from a rule, written directly or replayed from the
\* cache, carries the Cache-Control header the policy gives for the rule's
\* cacheControlMaxAge R and the server's D: none when R = -1; max-age=D when
\* R = 0 and D > -1, none when R = 0 and D = -1; max-age=R otherwise
C7_CacheControlPolicy ==
  /\ resp.kind = "match" =>
       resp.cacheControl = CacheControlPolicy(resp.rule.CacheControlMaxAge,
                                              ac.CacheControlMaxAge)
  /\ (resp.kind = "hit" /\ resp.src.kind = "match") =>
       resp.cacheControl = CacheControlPolicy(resp.src.rule.CacheControlMaxAge,
                                              ac.CacheControlMaxAge)

C7_Witness ==
  /\ resp.kind = "hit"
  /\ resp.src.kind = "match"
  /\ resp.src.rule.CacheControlMaxAge = 0
  /\ ac.CacheControlMaxAge = -1
  /\ ~resp.cacheControl.set

\* C8: under combine the result has every key of the request's and of the
\* rule's parameters; a key of the rule has exactly the rule's list, a key of
\* the request alone keeps the request's list
C8_CombineRightBiased ==
  (call.fn = "buildLocationParams" /\ call.done
   /\ call.strategy = ParamsStrategyCombine) =>
     /\ call.out.err = "nil"
     /\ DOMAIN call.out.params = (DOMAIN call.c) \cup (DOMAIN call.n)
     /\ \A k \in DOMAIN call.n : call.out.params[k] = call.n[k]
     /\ \A k \in (DOMAIN call.c) \ (DOMAIN call.n) : call.out.params[k] = call.c[k]

C8_Witness ==
  /\ call.fn = "buildLocationParams" /\ call.done
  /\ call.strategy = ParamsStrategyCombine
  /\ DOMAIN call.c = {"k1", "k2"}
  /\ DOMAIN call.n = {"k1"}
  /\ call.c["k1"] = <<"v1", "v2">>
  /\ call.n["k1"] = <<"v2">>
  /\ call.out.params["k1"] = <<"v2">>

\* C9: under replace the composed parameters are exactly the rule's: no key
\* of the request survives unless the rule declares it, and then with the
\* rule's values
C9_ReplaceIsRuleParams ==
  (call.fn = "buildLocationParams" /\ call.done
   /\ call.strategy = ParamsStrategyReplace) =>
     /\ call.out.err = "nil"
     /\ DOMAIN call.out.params = DOMAIN call.n
     /\ \A k \in DOMAIN call.n : call.out.params[k] = call.n[k]

C9_Witness ==
  /\ call.fn = "buildLocationParams" /\ call.done
  /\ call.strategy = ParamsStrategyReplace
  /\ DOMAIN call.c = {"k1", "k2"}
  /\ DOMAIN call.n = {"k1"}
  /\ call.c["k1"] # call.n["k1"]
  /\ DOMAIN call.out.params = {"k1"}

\* C10: when the matched rule's strategy is neither combine nor replace, the
\* composed parameters are empty; an unrecognized strategy gives
\* UnknownParameterStrategyError; the response still has the rule's status and
\* a Location without query, and the handler goes on to cache it
C10_UnknownStrategyStillRedirects ==
  [][ (/\ hpc = "miss" /\ hpc' # "miss"
       /\ resp'.kind = "match"
       /\ resp'.rule.Parameters.Strategy \notin {ParamsStrategyCombine,
                                                 ParamsStrategyReplace}) =>
        /\ resp'.newParams = NoValues
        /\ resp'.paramsErr = (IF resp'.rule.Parameters.Strategy = ParamsStrategyUnset
                                THEN "nil" ELSE "UnknownParameterStrategyError")
        /\ resp'.status = resp'.rule.Code
        /\ resp'.hasLocation
        /\ resp'.Location.query = <<>>
        /\ resp'.Location.host = resp'.rule.To.host
        /\ hpc' = "set"
        /\ pending' = [host |-> req.host, path |-> req.path,
                       location |-> resp'.Location, code |-> resp'.rule.Code,
                       cacheControlMaxAge |-> resp'.rule.CacheControlMaxAge] ]_vars

C10_Witness ==
  /\ resp.kind = "match"
  /\ resp.paramsErr = "UnknownParameterStrategyError"
  /\ resp.rule.Parameters.Values # NoValues
  /\ resp.params # NoValues
  /\ resp.Location.query = <<>>
  /\ hpc = "set"
  /\ pending.location = resp.Location

\* C11: when the server's default_parameter_strategy is the built-in default
\* and the matched rule was declared without a strategy, no key=value pair of
\* the request's query appears in the Location header
C11_RequestParamsOmitted ==
  [][ (hpc = "miss" /\ hpc' = "set" /\ resp'.kind = "match") =>
        \A file \in StartupFiles : \A i \in 1..Len(file.Rules) :
          (/\ file.DefaultParameterStrategy = defaultParameterStrategy
           /\ Loaded[file].cfg.RuleMap = ac.RuleMap
           /\ file.Rules[i].Parameters.Strategy = ParamsStrategyUnset
           /\ buildRules(<<file.Rules[i]>>, defaultStatusCode,
                         file.DefaultParameterStrategy, file.CacheControlMaxAge)
                = <<resp'.rule>>) =>
             \A k \in DOMAIN req.params : \A j \in 1..Len(req.params[k]) :
               \A n \in 1..Len(resp'.Location.query) :
                 resp'.Location.query[n] # <<k, req.params[k][j]>> ]_vars

\* C12: the host used for the cache lookup, for matching and for cache.Set is
\* the Host header without its :port, so no cache key holds a port and host and
\* host:port share key and bucket; the Location's host is that of the rule's to
\* directive, port included
C12_HostNormalized ==
  /\ IndexOf(req.host, ":", 1) = 0
  /\ IndexOf(pending.host, ":", 1) = 0
  /\ \A h \in DOMAIN cache : IndexOf(h, ":", 1) = 0
  /\ resp.Host \in {<<"h1">>, <<"h1", ":", "80">>} => resp.host = <<"h1">>
  /\ resp.kind = "match" =>
       /\ resp.Location.host = resp.rule.To.host
       /\ \E file \in StartupFiles :
            /\ resp.host \in DOMAIN Loaded[file].cfg.RuleMap
            /\ \E i \in 1..Len(Loaded[file].cfg.RuleMap[resp.host]) :
                 Loaded[file].cfg.RuleMap[resp.host][i] = resp.rule

C12_Witness ==
  /\ resp.kind = "hit"
  /\ resp.Host = <<"h1", ":", "80">>
  /\ resp.host = <<"h1">>
  /\ resp.src.kind = "match"
  /\ resp.Location.host = "x.com:8080"

\* C13: the query of the Location header of a rule's redirect is the encoding
\* of the composed parameters and nothing else; the query written in the
\* rule's to directive is not in it
C13_ToQueryDropped ==
  resp.kind = "match" =>
    /\ resp.Location.query = Encode(resp.newParams)
    /\ \A n \in 1..Len(resp.Location.query) :
         \A m \in 1..Len(resp.rule.To.query) :
           resp.Location.query[n] # resp.rule.To.query[m]

C13_Witness ==
  /\ resp.kind = "match"
  /\ resp.rule.To.query = << <<"q", "1">> >>
  /\ resp.params # NoValues
  /\ resp.Location.query = <<>>

\* C14: a successful match after a cache miss is answered with the rule's
\* status and the assembled Location, without X-Redirector-Cache-Status; the
\* handler then stores (host, path) with that location, the code and the rule's
\* cacheControlMaxAge; X-Redirector-Cache-Status: cached is on a response
\* exactly when it is served from the cache
C14_MatchAnsweredAndCached ==
  [][ /\ (hpc = "miss" /\ hpc' # "miss" /\ resp'.kind = "match") =>
           /\ resp'.status = resp'.rule.Code
           /\ resp'.hasLocation
           /\ resp'.Location.host = resp'.rule.To.host
           /\ resp'.Location.scheme = resp'.rule.To.scheme
           /\ resp'.cacheStatus = ""
           /\ hpc' = "set"
           /\ pending'.location = resp'.Location
      /\ (hpc = "set" /\ hpc' # "set" /\ resp.kind = "match") =>
           /\ req.host \in DOMAIN cache'
           /\ req.path \in DOMAIN cache'[req.host]
           /\ cache'[req.host][req.path].location = resp.Location
           /\ cache'[req.host][req.path].code = resp.rule.Code
           /\ cache'[req.host][req.path].cacheControlMaxAge
                = resp.rule.CacheControlMaxAge
      /\ (resp'.cacheStatus = "cached") <=> (resp'.kind = "hit") ]_vars

C14_Witness ==
  /\ resp.kind = "match"
  /\ hpc = "idle"
  /\ resp.cacheStatus = ""
  /\ resp.host \in DOMAIN cache
  /\ resp.path \in DOMAIN cache[resp.host]
  /\ cache[resp.host][resp.path].location = resp.Location
  /\ cache[resp.host][resp.path].code = resp.status
  /\ cache[resp.host][resp.path].cacheControlMaxAge = 5

\* a raw rule's from directive parses, its to contains "://" and its path
\* pattern compiles
Accepted(raw) ==
  /\ fromAsURL(raw.From).err = "nil"
  /\ raw.To.proto
  /\ Compile(<<"^">> \o fromAsURL(raw.From).Path).err = "nil"

\* the accepted rules of a file whose from directive has host h, as declared
KeptFor(file, h) ==
  SelectSeq(file.Rules, LAMBDA raw : Accepted(raw) /\ fromAsURL(raw.From).Host = h)

\* what identifies a rule as declared
Declared(rule) == <<rule.From, rule.To, rule.Parameters.Values>>

\* C15: loadConfig of a file that can be read returns no error; the buckets of
\* the compiled table hold, in declaration order, exactly the raw rules whose
\* from parses, whose to contains "://" and whose pattern compiles (so a
\* rejected rule removes no other, and only rejected rules give an empty
\* table); every rule of the table has a compiled pattern
C15_CompileKeepsValidRules ==
  (call.fn = "loadConfig" /\ call.done /\ call.file.loads) =>
    LET table == call.out.cfg.RuleMap IN
      /\ call.out.err = "nil"
      /\ DOMAIN table =
           {fromAsURL(call.file.Rules[i].From).Host :
              i \in {j \in 1..Len(call.file.Rules) : Accepted(call.file.Rules[j])}}
      /\ \A h \in DOMAIN table :
           /\ [j \in 1..Len(table[h]) |-> Declared(table[h][j])]
                = [j \in 1..Len(KeptFor(call.file, h)) |->
                     Declared(KeptFor(call.file, h)[j])]
           /\ \A j \in 1..Len(table[h]) : ~table[h][j].compiled.nil

C15_Witness ==
  /\ call.fn = "loadConfig" /\ call.done /\ call.file.loads
  /\ Len(call.file.Rules) = 2
  /\ call.file.Rules[1].From = FromUnclosed
  /\ Accepted(call.file.Rules[2])
  /\ DOMAIN call.out.cfg.RuleMap = {<<"h2">>}
  /\ Len(call.out.cfg.RuleMap[<<"h2">>]) = 1

\* C16: in the compiled table a rule declared with code 0 has code 301, one
\* declared with an empty strategy has the server's default strategy, one
\* declared with cacheControlMaxAge 0 has the server's cache_control_max_age;
\* every other declared value, -1 included, is kept
C16_DefaultsApplied ==
  (call.fn = "loadConfig" /\ call.done /\ call.file.loads) =>
    LET table == call.out.cfg.RuleMap IN
      \A h \in DOMAIN table :
        /\ Len(table[h]) = Len(KeptFor(call.file, h))
        /\ \A j \in 1..Len(table[h]) :
             LET raw == KeptFor(call.file, h)[j]
                 rule == table[h][j]
             IN /\ rule.Code = IF raw.Code = 0 THEN 301 ELSE raw.Code
                /\ rule.Parameters.Strategy =
                     IF raw.Parameters.Strategy = ""
                       THEN call.file.DefaultParameterStrategy
                       ELSE raw.Parameters.Strategy
                /\ rule.CacheControlMaxAge =
                     IF raw.CacheControlMaxAge = 0 THEN call.file.CacheControlMaxAge
                     ELSE raw.CacheControlMaxAge

C16_Witness ==
  /\ call.fn = "loadConfig" /\ call.done /\ call.file.loads
  /\ call.file.DefaultParameterStrategy = ParamsStrategyReplace
  /\ call.file.CacheControlMaxAge = 7
  /\ Len(call.file.Rules) = 2
  /\ call.file.Rules[1].Code = 0
  /\ call.file.Rules[1].Parameters.Strategy = ""
  /\ call.file.Rules[1].CacheControlMaxAge = 0
  /\ call.file.Rules[2].CacheControlMaxAge = -1
  /\ <<"h1">> \in DOMAIN call.out.cfg.RuleMap
  /\ Len(call.out.cfg.RuleMap[<<"h1">>]) = 2
  /\ call.out.cfg.RuleMap[<<"h1">>][1].Code = 301
  /\ call.out.cfg.RuleMap[<<"h1">>][1].Parameters.Strategy = ParamsStrategyReplace
  /\ call.out.cfg.RuleMap[<<"h1">>][1].CacheControlMaxAge = 7
  /\ call.out.cfg.RuleMap[<<"h1">>][2].Code = 302
  /\ call.out.cfg.RuleMap[<<"h1">>][2].CacheControlMaxAge = -1

\* a host made only of characters of [A-Za-z0-9._-]
AsciiHost(h) ==
  \A i \in 1..Len(h) : h[i] \in AsciiAlnum \cup AsciiDigits \cup {".", "_", "-"}

\* C17: every bucket key of a compiled table, and the host of the from
\* directive of every rule in it, has only characters of [A-Za-z0-9._-]; a
\* from directive whose host is empty or has another character is rejected
C17_HostCharset ==
  /\ (call.fn = "loadConfig" /\ call.done /\ call.file.loads) =>
       \A h \in DOMAIN call.out.cfg.RuleMap :
         /\ AsciiHost(h)
         /\ \A j \in 1..Len(call.out.cfg.RuleMap[h]) :
              AsciiHost(fromAsURL(call.out.cfg.RuleMap[h][j].From).Host)
  /\ (call.fn = "fromAsURL" /\ call.done
      /\ (call.host = <<>> \/ ~AsciiHost(call.host))) =>
       /\ call.out.err # "nil"
       /\ call.outG.err # "nil"

\* C18: for a directive accepted by fromAsURL the scheme is the one written, or
\* https when none is written; the host is the directive's host without :port;
\* the path is the directive's path, or "/" when it has none; the directive
\* without and with a leading scheme give the same host and path
C18_FromNormalized ==
  (call.fn = "fromAsURL" /\ call.done) =>
    /\ call.out.err = "nil" =>
         /\ call.out.Scheme = <<"https">>
         /\ call.out.Host = call.host
         /\ call.out.Path = IF call.path = <<>> THEN <<"/">> ELSE call.path
    /\ call.outG.err = "nil" =>
         /\ call.outG.Scheme = call.scheme
         /\ call.outG.Host = call.host
         /\ call.outG.Path = IF call.path = <<>> THEN <<"/">> ELSE call.path
    /\ (call.out.err = "nil" /\ call.outG.err = "nil") =>
         /\ call.out.Host = call.outG.Host
         /\ call.out.Path = call.outG.Path

C18_Witness ==
  /\ call.fn = "fromAsURL" /\ call.done
  /\ call.scheme = <<"ssh">>
  /\ call.host = <<"h1", ".", "h2">>
  /\ call.port = <<":", "80">>
  /\ call.path = <<>>
  /\ call.out.err = "nil" /\ call.outG.err = "nil"
  /\ call.out.Scheme = <<"https">> /\ call.outG.Scheme = <<"ssh">>
  /\ call.out.Host = <<"h1", ".", "h2">>
  /\ call.out.Path = <<"/">>

\* the tables loadConfig compiles from the config files that load
WholeTables ==
  {Loaded[file].cfg.RuleMap : file \in {f \in ConfigFiles : Loaded[f].err = "nil"}}

\* C19: the live RuleMap changes only by becoming, as a whole, the table
\* compiled from a config that loaded; nothing else of the AppConfig changes
\* with it; an event whose load fails leaves the RuleMap as it was
C19_ReloadSwapsWholeTable ==
  [][ ac' # ac =>
        /\ ac'.RuleMap \in WholeTables
        /\ ac' = [ac EXCEPT !.RuleMap = ac'.RuleMap] ]_vars

C19_Witness ==
  /\ ac.LocationOnMiss = EmptyLocation
  /\ ac.StatusOnMiss = 410
  /\ ac.RuleMap = Loaded[File3].cfg.RuleMap
  /\ ac.RuleMap # Loaded[File1].cfg.RuleMap

\* C20: whatever reloads happen between and during requests, the live RuleMap
\* is always one whole compiled table, and every response that comes from
\* matching is the one findMatch gives for the request on one such table: the
\* rule it was built from, or the error it reports
C20_OneTablePerRequest ==
  /\ ac.RuleMap \in WholeTables
  /\ resp.kind = "match" =>
       \E T \in WholeTables :
         /\ findMatch(resp.host, resp.path, T) = [rule |-> resp.rule, err |-> "nil"]
         /\ resp.status = resp.rule.Code
         /\ resp.Location.host = resp.rule.To.host
  /\ resp.kind = "nomatch" =>
       \E T \in WholeTables : findMatch(resp.host, resp.path, T).err = resp.matchErr

C20_Witness ==
  /\ hpc = "set"
  /\ resp.kind = "match"
  /\ findMatch(resp.host, resp.path, ac.RuleMap).rule # resp.rule
  /\ \E T \in WholeTables : findMatch(resp.host, resp.path, T).rule = resp.rule

\* the positions of the rules of a bucket that findMatch selects for path: the
\* literal prefix of the pattern is the path, or the pattern matches it
Selected(bucket, path) ==
  {i \in 1..Len(bucket) :
     \/ LiteralPrefix(bucket[i].compiled) = path
     \/ MatchString(bucket[i].compiled, path)}

\* C27: findMatch returns NoRuleForHostError exactly when the host is no key of
\* the table, NoRuleForPathError exactly when the host has a bucket none of
\* whose rules is selected for the path, and with either error the zero Rule
C27_NoMatchErrors ==
  (call.fn = "findMatch" /\ call.done) =>
    /\ (call.out.err = "NoRuleForHostError") <=> (call.hostname \notin DOMAIN call.rules)
    /\ (call.out.err = "NoRuleForPathError") <=>
          /\ call.hostname \in DOMAIN call.rules
          /\ Selected(call.rules[call.hostname], call.path) = {}
    /\ call.out.err \in {"nil", "NoRuleForHostError", "NoRuleForPathError"}
    /\ call.out.err # "nil" => call.out.rule = NilRule
    /\ call.out.err = "nil" => call.out.rule # NilRule

C27_Witness ==
  /\ call.fn = "findMatch" /\ call.done
  /\ call.hostname = <<"h2">>
  /\ <<"h1">> \in DOMAIN call.rules
  /\ Len(call.rules[<<"h1">>]) = 2
  /\ call.out = [rule |-> NilRule, err |-> "NoRuleForHostError"]

\* C28: when some rule of the host's bucket has a pattern whose literal prefix
\* is the request path, findMatch returns the first such rule, also when a rule
\* declared before it matches the path by its regular expression only
C28_ExactLiteralFirst ==
  (call.fn = "findMatch" /\ call.done /\ call.hostname \in DOMAIN call.rules) =>
    LET bucket == call.rules[call.hostname]
        exact == {i \in 1..Len(bucket) : LiteralPrefix(bucket[i].compiled) = call.path}
    IN exact # {} => /\ call.out.err = "nil"
                     /\ call.out.rule = bucket[Least(exact)]

Cached(c, host, path) == host \in DOMAIN c /\ path \in DOMAIN c[host]

C23_HitNotExpired ==
  [][ (nreq' # nreq /\ hpc' = "idle" /\ resp'.kind = "hit") =>
        now < cache[resp'.host][resp'.path].createdAt
                + cache[resp'.host][resp'.path].ttl ]_vars

\* C29: the response to a request that matched no rule carries
\* Cache-Control: max-age=D, D being the server's cache_control_max_age,
\* whenever D is not -1, as the policy has it for a max-age left unset
C29_NoMatchCacheControl ==
  (resp.kind = "nomatch" /\ ac.CacheControlMaxAge > -1) =>
    resp.cacheControl = [set |-> TRUE, maxAge |-> ac.CacheControlMaxAge]

\* C30: in the table loadConfig returns, every rule is in the bucket keyed by
\* the normalized host of its own from directive and in no other, and the rules
\* of each bucket are the accepted rules of that host in their order in the
\* file: the bucket's positions map one to one and increasingly onto theirs
C30_BucketedInOrder ==
  (call.fn = "loadConfig" /\ call.done /\ call.file.loads) =>
    LET table == call.out.cfg.RuleMap
        src == call.file.Rules
        acc == {i \in 1..Len(src) : Accepted(src[i])}
    IN /\ \A h \in DOMAIN table : \A j \in 1..Len(table[h]) :
            fromAsURL(table[h][j].From).Host = h
       /\ \A i \in acc : \A h \in DOMAIN table \ {fromAsURL(src[i].From).Host} :
            \A j \in 1..Len(table[h]) : Declared(table[h][j]) # Declared(src[i])
       /\ \A h \in DOMAIN table :
            \E f \in [1..Len(table[h]) -> acc] :
              /\ \A j \in 1..Len(table[h]) : Declared(table[h][j]) = Declared(src[f[j]])
              /\ \A j, k \in 1..Len(table[h]) : j < k => f[j] < f[k]
              /\ {f[j] : j \in 1..Len(table[h])}
                   = {i \in acc : fromAsURL(src[i].From).Host = h}

C30_Witness ==
  /\ call.fn = "loadConfig" /\ call.done /\ call.file.loads
  /\ Len(call.file.Rules) = 2
  /\ fromAsURL(call.file.Rules[1].From).Host = <<"h1">>
  /\ call.file.Rules[1].To = ToX
  /\ call.file.Rules[2].To = ToY
  /\ DOMAIN call.out.cfg.RuleMap = {<<"h1">>}
  /\ Len(call.out.cfg.RuleMap[<<"h1">>]) = 2
  /\ call.out.cfg.RuleMap[<<"h1">>][1].To = ToX
  /\ call.out.cfg.RuleMap[<<"h1">>][2].To = ToY

C24_LoopsExitOnCancel ==
  /\ cancelled ~> (epc = "exited")
  /\ cancelled ~> (rpc = "exited")
  /\ [][ cancelled => /\ ~(epc = "sleep" /\ esleep' < esleep)
                       /\ ~(epc = "top" /\ epc' = "scan") ]_vars

\* C22: a range of the cleanup loop over the cache ends with every item gone
\* that was expired (createdAt + ttl < now) when the range began; after the
\* loop's delete Get returns nil for the key; a request for a (host, path)
\* that has no item any more runs the pipeline again and, when the rule table
\* gives what it gave for the previous response to the same request, written
\* by the pipeline or from the cache, has that response's status and Location;
\* and an expired item is in the end removed unless the loop has returned
C22_ExpiredEvictedThenRecomputed ==
  /\ [][ /\ (epc = "scan" /\ epc' = "sleep") =>
              \A e \in epass.old :
                ~(/\ Cached(cache, e[1][1], e[1][2])
                  /\ cache[e[1][1]][e[1][2]].createdAt = e[2])
         /\ (epc = "delete" /\ epc' # "delete") =>
              Get(cache', [host |-> etarget[1], path |-> etarget[2]]).nil
         /\ (/\ hpc = "miss" /\ hpc' # "miss"
             /\ resp.kind \in {"match", "nomatch"}
             /\ <<resp.host, resp.path, resp.params>> = <<req.host, req.path, req.params>>
             /\ findMatch(req.host, req.path, ac.RuleMap)
                  = [rule |-> resp.rule, err |-> resp.matchErr]) =>
              /\ resp'.kind = resp.kind
              /\ resp'.status = resp.status
              /\ resp'.hasLocation = resp.hasLocation
              /\ resp'.Location = resp.Location
         /\ (/\ hpc = "miss" /\ hpc' # "miss"
             /\ resp.kind = "hit"
             /\ <<resp.host, resp.path, resp.params>> = <<req.host, req.path, req.params>>
             /\ findMatch(req.host, req.path, ac.RuleMap).rule = resp.src.rule) =>
              /\ resp'.kind = resp.src.kind
              /\ resp'.status = resp.status
              /\ resp'.Location = resp.Location ]_vars
  /\ \A rq \in LifeRequests :
       (Cached(cache, rq[1], rq[2]) /\ Expired(cache[rq[1]][rq[2]], now))
         ~> (~Cached(cache, rq[1], rq[2]) \/ epc = "exited")

C22_Witness ==
  /\ resp.kind = "match"
  /\ hpc = "set"
  /\ nreq = 2
  /\ ~Cached(cache, resp.host, resp.path)
  /\ \E e \in epass.old : e[1] = <<resp.host, resp.path>>
  /\ findMatch(resp.host, resp.path, ac.RuleMap).rule = resp.rule
  /\ pending.location = resp.Location

\* C33: a rule returned by findMatch for the request's (host, path) has a
\* compiled pattern that matches the path, and the handler's rewritePath call
\* on it does not return StringNotExpandableError
C33_ReturnedRuleMatches ==
  resp.kind \in {"match", "rewriteerr", "locationerr", "panic"} =>
    /\ findMatch(resp.host, resp.path, Put(<<>>, resp.host, <<resp.rule>>)).err = "nil"
    /\ MatchString(resp.rule.compiled, resp.path)
    /\ rewritePath(resp.path, resp.rule.compiled, resp.rule.To).err
         # "StringNotExpandableError"
    /\ resp.kind # "rewriteerr"

\* C36: no step changes location_on_miss, status_on_miss, the server's
\* cache_control_max_age, the cache settings or the cache's ttl; a step that
\* changes the rule table changes nothing else; and the responses written and
\* the items stored after a reload are made with those kept values
C36_ReloadChangesOnlyTable ==
  [][ /\ ac'.LocationOnMiss = ac.LocationOnMiss
      /\ ac'.StatusOnMiss = ac.StatusOnMiss
      /\ ac'.CacheControlMaxAge = ac.CacheControlMaxAge
      /\ ac'.Cache = ac.Cache
      /\ ttl' = ttl
      /\ ac'.RuleMap # ac.RuleMap =>
           UNCHANGED <<cache, now, hpc, req, pending, resp, origin, epc, etarget, nreq>>
      /\ (hpc = "miss" /\ hpc' # "miss") =>
           /\ resp'.kind \in {"rewriteerr", "locationerr"} =>
                /\ resp'.status = ac.StatusOnMiss
                /\ resp'.Location = ac.LocationOnMiss
           /\ resp'.kind = "nomatch" => resp'.Location = ac.LocationOnMiss
           /\ resp'.kind = "match" =>
                resp'.cacheControl = setCacheControlMaxAge(ac.CacheControlMaxAge,
                                                           resp'.rule.CacheControlMaxAge)
      /\ (hpc = "set" /\ hpc' = "idle") =>
           cache'[pending.host][pending.path].ttl = ttl ]_vars

\* started from the first file and reloaded with the second: a rule of the
\* second file's table cannot be applied and the response has the first
\* file's status_on_miss and no Location, where the second file has a fallback
C36_Witness ==
  /\ resp.kind = "rewriteerr"
  /\ ac.RuleMap = Loaded[File2].cfg.RuleMap
  /\ ac.RuleMap # Loaded[File1].cfg.RuleMap
  /\ File2.StatusOnMiss # File1.StatusOnMiss
  /\ File2.LocationOnMiss # File1.LocationOnMiss
  /\ resp.status = File1.StatusOnMiss
  /\ ~resp.hasLocation
  /\ ttl # File4.Cache.TTL

\* C37: a response served from the cache carries a Location header exactly
\* when the response that created the item did, and a Cache-Control header
\* exactly when that one did, with the same max-age
C37_HitHasOriginHeaders ==
  resp.kind = "hit" =>
    /\ resp.hasLocation = resp.src.hasLocation
    /\ resp.cacheControl.set = resp.src.cacheControl.set
    /\ resp.cacheControl.maxAge = resp.src.cacheControl.maxAge

\* C38: every request the handler has taken is answered with one status
\* code: the cached code on a hit, the rule's code on a match, 307 or 404 or
\* 500 when no rule matched, status_on_miss when the rule could not be applied
C38_OneStatusOnEveryPath ==
  /\ resp.kind # "none" =>
       /\ resp.kind \in {"hit", "nomatch", "rewriteerr", "locationerr", "match"}
       /\ resp.status # 0
       /\ CASE resp.kind = "hit" -> resp.status = resp.src.status
            [] resp.kind = "match" -> resp.status = resp.rule.Code
            [] resp.kind = "nomatch" ->
                 resp.status \in {StatusTemporaryRedirect, StatusNotFound,
                                  StatusInternalServerError}
            [] OTHER -> resp.status = ac.StatusOnMiss
  /\ (hpc = "idle" /\ nreq > 0) => resp.kind # "none"

\* C35: what the handler's cache.Set stores is what the pipeline computes for
\* the request from the rule table that is live when the item is stored: a
\* result read from a table that has been replaced since is not written
C35_SetFromLiveTable ==
  [][ (hpc = "set" /\ hpc' = "idle") =>
        LET h == handleRequestMiss(ac, req) IN
          /\ h.set
          /\ cache'[pending.host][pending.path].location = h.parameters.location
          /\ cache'[pending.host][pending.path].code = h.parameters.code ]_vars

\* the item's ttl ends before the clock stops
EndsInTime(item) == item.createdAt + item.ttl < MaxTime

\* C39: a request answered from the cache leaves the cache as it is, createdAt
\* and ttl of the item included; and an item whose ttl ends before the clock
\* stops is in the end removed, or replaced by a later Set with a ttl that
\* does not, unless the cleanup loop has returned, whether or not it is hit
C39_HitsDoNotKeepAlive ==
  /\ [][ (nreq' # nreq /\ hpc' = "idle") =>
           /\ resp'.kind = "hit"
           /\ cache' = cache ]_vars
  /\ \A rq \in LifeRequests :
       (Cached(cache, rq[1], rq[2]) /\ EndsInTime(cache[rq[1]][rq[2]]))
         ~> (\/ ~Cached(cache, rq[1], rq[2])
             \/ ~EndsInTime(cache[rq[1]][rq[2]])
             \/ epc = "exited")

\* an item stored at time 0 was hit and has been removed as expired by a
\* range of the cleanup loop, with the context not cancelled
C39_Witness ==
  /\ resp.kind = "hit"
  /\ nreq = 2
  /\ hpc = "idle"
  /\ ~cancelled
  /\ ~Cached(cache, resp.host, resp.path)
  /\ <<<<resp.host, resp.path>>, 0>> \in epass.old

\* C32: the Location of a response served from the cache is the Location
\* the pipeline computes from the live rule table for the request that is
\* served, with that request's own query parameters
C32_HitLocationIsOwn ==
  resp.kind = "hit" =>
    LET h == handleRequestMiss(ac, [Host |-> resp.Host, host |-> resp.host,
                                    path |-> resp.path, params |-> resp.params])
    IN /\ h.resp.Location = resp.Location
       /\ h.resp.Location.query = resp.Location.query

\* C31: a goroutine that reads the cache map holds RLock, one that writes it
\* holds Lock, and while one goroutine writes the map no other reads it, the
\* range of the cleanup loop included
C31_NoReadOverlapsWrite ==
  LET readers == {i \in Handlers : hs[i].pc = "reading"}
                   \cup (IF epc = "reading" THEN {"cleanup"} ELSE {})
      writers == {i \in Handlers : hs[i].pc = "writing"}
                   \cup (IF epc = "deleting" THEN {"cleanup"} ELSE {})
  IN /\ readers \subseteq lock.r
     /\ \A t \in writers : lock.w = t
     /\ writers # {} => readers = {}

\* C34: the item the cleanup loop deletes is expired at the moment it is
\* deleted; an item stored by Set after the loop compared the age of the item
\* it replaces is left in the cache
C34_DeletesOnlyExpired ==
  [][ (epc = "deleting" /\ epc' # "deleting") =>
        Expired(cache[etarget[1]][etarget[2]], now) ]_vars

====
